---- MODULE Spec2Model ----
(***************************************************************************)
(* Model of the xorcoin node: the ledger (UTXO set, chain), the            *)
(* fee-prioritised mempool, the double-spend guard and the operations of   *)
(* XorcoinSystem that tie them together.                                   *)
(*                                                                         *)
(* Specifications:                                                         *)
(*   Spec      - XorcoinSystem: add_transaction (per calling thread, in    *)
(*               the steps between which other threads can run) and        *)
(*               mine_block.                                               *)
(*   SpecMP    - a Mempool object driven directly through add_transaction  *)
(*               and get_transactions_for_block, every transaction being   *)
(*               offered only while the pool does not hold it.             *)
(*   SpecMPAny - the same Mempool when transactions it holds are offered   *)
(*               again as well.                                            *)
(*   SpecBatch - ThreadSafeUTXOSet.batch_update called directly.           *)
(*   SpecPB    - mine_block with its UTXO calls as separate steps, and a   *)
(*               concurrent reader of the UTXO set.                        *)
(*   SpecBV    - validate_block on offered blocks.                         *)
(*   SpecTime  - blocks mined while the clock advances.                    *)
(*   SpecEcon  - get_total_supply_at_height.                               *)
(*   SpecDSP   - a DoubleSpendProtector driven directly.                   *)
(*   SpecDiff  - ConsensusRules.calculate_next_difficulty.                 *)
(*   SpecGB    - P2PNode._handle_getblocks on the locator of a shorter     *)
(*               chain.                                                    *)
(*   SpecRL    - RateLimiter.is_allowed called by the receive threads.     *)
(*   SpecNet   - P2PNode: connections accepted and opened, messages        *)
(*               received and handled, connections dropped.                *)
(*   SpecConn  - the connections of P2PNode alone, with more of them.      *)
(*   SpecHS    - two nodes during the VERSION/VERACK handshake, every      *)
(*               thread being scheduled (weak fairness).                   *)
(*   SpecIBD   - a node behind its Ready peer: block download, every       *)
(*               thread being scheduled (weak fairness).                   *)
(*   SpecRW    - threads entering and leaving the read and write sections  *)
(*               of an RWLock.                                             *)
(*   SpecBC    - Blockchain.add_block called with mined blocks.            *)
(*   SpecReorg - ForkChoice.handle_reorg on an old and a new chain.        *)
(*   SpecBan   - PeerManager.ban_peer and the disconnect callback, every   *)
(*               thread being scheduled (weak fairness).                   *)
(*   SpecPM    - threads calling PeerManager.add_peer.                     *)
(*   SpecRelay - P2PNode handling the messages of two accepted peers:      *)
(*               handshake, inventory, transactions, blocks, addresses,    *)
(*               and the peers' scores.                                    *)
(***************************************************************************)
EXTENDS Integers, Sequences, FiniteSets, TLC

VARIABLES
    utxos,          \* ThreadSafeUTXOSet.utxos : utxo id -> [amount, script_pubkey]
    chain,          \* Blockchain.chain : sequence of blocks
    transactions,   \* Mempool.transactions : dict txid -> tx, in insertion order
    tx_by_fee,      \* Mempool.tx_by_fee : heapq array of (-fee_rate, tx_hash)
    current_size,   \* Mempool.current_size
    max_size,       \* Mempool.max_size
    spent_utxos,    \* DoubleSpendProtector.spent_utxos
    pending_utxos,  \* DoubleSpendProtector.pending_utxos : utxo id -> txid
    pc,             \* per thread: position inside XorcoinSystem.add_transaction
    cur,            \* per thread: the transaction being added
    calls,          \* number of add_transaction calls started so far
    last,           \* history: the most recent Mempool.add_transaction call
    lockcall,       \* history: the most recent check_and_lock_utxos call
    admitted,       \* history: the transactions for which add_transaction returned True
    selected,       \* result of the most recent get_transactions_for_block
    now,            \* int(time.time()), in seconds since the system was built
    pb,             \* mine_block in progress: the block and the UTXO calls left
    observed,       \* history: what the most recent reader of the UTXO set saw
    batchcall,      \* history: the most recent batch_update call
    bvcall,         \* history: the most recent validate_block call
    econ,           \* history: the most recent get_total_supply_at_height call
    requests,       \* RateLimiter.requests : ip -> list of request times
    rl,             \* the receive threads inside RateLimiter.is_allowed, and what it returned
    gbcall,         \* history: the most recent GETBLOCKS handled and the INV sent
    diffcall,       \* history: the most recent calculate_next_difficulty call
    peer_objs,      \* the Peer objects created so far, with their fields
    peers,          \* PeerManager.peers : peer_id -> Peer object
    connections_per_ip, \* P2PNode.connections_per_ip : ip -> count
    netlog,         \* history: the most recent message handled by P2PNode
    handshake,      \* two nodes during the VERSION/VERACK handshake
    ibd,            \* a node behind its peer: chain, sync state, messages in flight
    rw,             \* RWLock: _readers, the owner of the RLock, each thread's position
    bc,             \* a Blockchain object: the Block objects made so far and its chain
    reorg,          \* history: the most recent ForkChoice.handle_reorg call
    pm,             \* a PeerManager whose add_peer is called by several threads
    ban,            \* a PeerManager during ban_peer: peer_lock and the call stack
    relay           \* a P2PNode and two peers: states, scores, requested sets, known_peers

vars == <<utxos, chain, transactions, tx_by_fee, current_size, max_size,
          spent_utxos, pending_utxos, pc, cur, calls, last, lockcall, admitted,
          selected, now, pb, observed, batchcall, bvcall, econ,
          requests, rl, gbcall, diffcall, peer_objs, peers, connections_per_ip,
          netlog, handshake, ibd, rw, bc, reorg, pm, ban, relay>>

extVars == <<rw, bc, reorg, pm, ban, relay>>
coreVars == <<utxos, chain, transactions, tx_by_fee, current_size, max_size,
              spent_utxos, pending_utxos, pc, cur, calls, last, lockcall,
              admitted, selected, now, pb, observed, batchcall, bvcall, econ,
              requests, rl, gbcall, diffcall, peer_objs, peers,
              connections_per_ip, netlog, handshake, ibd>>
limVars == <<requests, rl>>
p2pVars == <<peer_objs, peers, connections_per_ip, netlog>>

\* the variables of the network layer and of the consensus helpers
netVars == <<limVars, gbcall, diffcall, p2pVars, handshake, ibd, extVars>>

auxVars == <<now, pb, observed, batchcall, bvcall, econ, netVars>>

ledgerVars == <<utxos, chain>>
poolVars == <<transactions, tx_by_fee, current_size, max_size>>
guardVars == <<spent_utxos, pending_utxos>>

-----------------------------------------------------------------------------
(* Bounds of the model *)

MaxBlocks == 3        \* blocks mined on top of genesis
MaxCalls == 2         \* add_transaction calls
NumThreads == 2       \* threads calling add_transaction
MaxPoolSize == 4      \* Mempool.max_size, in the unit of TxSizes
MaxPoolCalls == 4     \* Mempool.add_transaction calls in SpecMP
MaxPoolTxs == 3       \* distinct transactions offered to the pool in SpecMP
CurveOrder == 7       \* order n of the signature group (SECP256k1.order, scaled down)
MaxBatch == 2         \* length of the lists given to batch_update in SpecBatch
MaxBodyTxs == 2       \* non-coinbase transactions of the blocks validated in SpecBV
MaxClock == 3         \* seconds the clock advances in SpecTime
MaxPBBlocks == 2      \* blocks mined on top of genesis in SpecPB
HeightStep == 10000   \* distance of the heights asked in SpecEcon
MaxHeightSteps == 150 \* number of such heights above 0
MaxGuardInputs == 2    \* inputs of the transactions given to the guard in SpecDSP
TimeStep == 151200    \* distance of the timespans asked in SpecDiff, an eighth of the expected one
MaxTimeSteps == 40    \* number of such timespans above 0
MaxDifficulty == 6    \* highest difficulty of the chains asked in SpecDiff
MaxChainLen == 13     \* longest of the short chains in SpecGB
max_requests == 2      \* RateLimiter.max_requests, the argument of its constructor
MaxLimiterCalls == 4   \* is_allowed calls in SpecRL
ClockStep == 20        \* seconds between two readings of the clock in SpecRL
MaxTicks == 4          \* number of such steps
MaxPeerObjs == 2       \* Peer objects created by the node in SpecNet
MaxConnObjs == 4       \* Peer objects created by the node in SpecConn
MaxNetMsgs == 3        \* messages received by the node
MaxSegment == 2        \* messages one recv() can bring
MaxRemoteHeight == 1   \* highest start_height a remote VERSION announces
MaxHSHeight == 3       \* chain heights of the two nodes of a handshake
MaxIBDLen == 7         \* longest chain of the node ahead
NumRWThreads == 3      \* threads using the RWLock
MaxBCBlocks == 5       \* blocks in the chain of the Blockchain object
MaxReorgLen == 3       \* blocks of the shared part and of each branch
MaxReorgBody == 2      \* non-coinbase transactions of a block
MaxBanPorts == 2       \* peers of one host in the table of the PeerManager
NumPMThreads == 2      \* threads calling add_peer
MaxPMFree == 2         \* free places of the peer table at the start
MaxRelayMsgs == 4      \* messages handled by the node in SpecRelay
NumRecvThreads == 2    \* receive threads (peers of one IP) calling is_allowed

TxSizes == {1, 2, 4}  \* len(str(tx).encode()) of the transactions offered
PoolFees == {0, 1, 2, 5} \* fees offered in SpecMP
TxAmounts == {10, 50} \* output amounts of the transactions offered
SysTxSizes == {1, 4}  \* sizes of the transactions submitted in Spec
Miners == {"M", "N"}
Payees == {"N"}
Threads == 1..NumThreads
RecvThreads == 1..NumRecvThreads
RWThreads == 1..NumRWThreads
RelayPeers == {1, 2}     \* the peers of the node in SpecRelay
HostIps == {"ip1", "ip2"}  \* peer.host of the peers

-----------------------------------------------------------------------------
(* Program constants *)

INITIAL_BLOCK_REWARD == 50
HALVING_INTERVAL == 210000
GENESIS_SUPPLY == 1000000
MAX_SUPPLY == 21000000
CHAIN_DIFFICULTY == 4         \* Blockchain.difficulty
MAX_BLOCK_SIZE == 1000000     \* ConsensusRules.MAX_BLOCK_SIZE
MAX_CONNECTIONS_PER_IP == 3    \* connection_limits['max_connections_per_ip']
MAX_INBOUND_CONNECTIONS == 100 \* connection_limits['max_inbound_connections']
EPHEMERAL_BASE == 32768        \* first source port of an inbound connection
MAX_PEERS == 8                 \* PeerManager.max_peers
BC_DIFFICULTY == 4             \* Blockchain.difficulty
INITIAL_SCORE == 100           \* PeerScore.score at creation
VALID_BLOCK == 10              \* PeerAction.VALID_BLOCK
VALID_TX == 2                  \* PeerAction.VALID_TX
INVALID_BLOCK == -50           \* PeerAction.INVALID_BLOCK
INVALID_TX == -20              \* PeerAction.INVALID_TX
RATE_WINDOW == 60              \* RateLimiter.is_allowed: current_time - 60
GETBLOCKS_LIMIT == 500         \* _handle_getblocks: start_height + 500
LOCATOR_DENSE == 10            \* _build_block_locator: len(locator) > 10
DIFFICULTY_ADJUSTMENT_INTERVAL == 2016
TARGET_BLOCK_TIME == 600
MAX_TIME_DRIFT == 7200        \* ConsensusRules.MAX_TIME_DRIFT = 2 * 60 * 60
BLOCK_TX_LIMIT == 10          \* [:10] in mine_block
\* min_fee_rate = 0.001 = MIN_FEE_RATE_NUM / MIN_FEE_RATE_DEN
MIN_FEE_RATE_NUM == 1
MIN_FEE_RATE_DEN == 1000

-----------------------------------------------------------------------------
(* Generic helpers *)

RECURSIVE SumSeq(_)
SumSeq(s) == IF s = <<>> THEN 0 ELSE Head(s) + SumSeq(Tail(s))

RECURSIVE SumSet(_, _)
\* sum of f[x] over x in S
SumSet(f, S) ==
    IF S = {} THEN 0
    ELSE LET x == CHOOSE y \in S : TRUE IN f[x] + SumSet(f, S \ {x})

Range(s) == {s[i] : i \in 1..Len(s)}

RECURSIVE Concat(_)
\* concatenation of a sequence of sequences
Concat(ss) == IF ss = <<>> THEN <<>> ELSE Head(ss) \o Concat(Tail(ss))

RECURSIVE SeqLess(_, _)
\* lexicographic order on sequences of integers
SeqLess(a, b) ==
    IF b = <<>> THEN FALSE
    ELSE IF a = <<>> THEN TRUE
    ELSE IF Head(a) # Head(b) THEN Head(a) < Head(b)
    ELSE SeqLess(Tail(a), Tail(b))

-----------------------------------------------------------------------------
(* Data model: core/models.py *)

\* TxInput.get_utxo_id / UTXO.get_id: "<tx_hash>:<index>"
UtxoId(tx_hash, index) == [prev_tx_hash |-> tx_hash, prev_output_index |-> index]

\* Transaction.get_hash: the digest covers inputs (outpoints only) and outputs;
\* signatures, public keys and the timestamp are not hashed.  The digest is
\* modelled by the hashed content itself (SHA-256 taken as collision free).
GetHash(tx) == [inputs |-> tx.inputs, outputs |-> tx.outputs]

AddrRank(a) == CASE a = "genesis" -> 0 [] a = "M" -> 1 [] a = "N" -> 2 [] OTHER -> 3

RECURSIVE HashDigits(_)
\* the hashed content as a sequence of integers
HashDigits(h) ==
    <<Len(h.inputs)>>
    \o Concat([i \in 1..Len(h.inputs) |->
                 HashDigits(h.inputs[i].prev_tx_hash) \o <<h.inputs[i].prev_output_index>>])
    \o <<Len(h.outputs)>>
    \o Concat([i \in 1..Len(h.outputs) |->
                 <<h.outputs[i].amount, AddrRank(h.outputs[i].script_pubkey)>>])

\* the order of two hex digests as Python compares strings: a total order
HashLess(h1, h2) == SeqLess(HashDigits(h1), HashDigits(h2))

\* len(str(tx).encode()): depends on the signature and key bytes too
TxSize(tx) == tx.size

\* the s values for which the ECDSA equation holds for the signed message and
\* the key of the owner: a signature (r, s) and its twin (r, n - s)
GoodS == {2, CurveOrder - 2}

\* the s values of the signatures callers attach to their inputs: the low-S
\* signature and a signature that does not verify
OfferedSignatures == {2, 3}

\* a transaction without inputs carries no signature (b'')
NoSignature == 0

Coinbase(amount, address) ==
    [inputs |-> <<>>,
     outputs |-> <<[amount |-> amount, script_pubkey |-> address]>>,
     signature |-> NoSignature, size |-> 1]

-----------------------------------------------------------------------------
(* heapq on tuples (-fee_rate, tx_hash); fee_rate = fee / size is kept as *)
(* the pair fee, size and compared by cross multiplication                *)

RateLess(a, b) == a.fee * b.size < b.fee * a.size
RateEq(a, b) == a.fee * b.size = b.fee * a.size

\* (-rate_a, hash_a) < (-rate_b, hash_b)
EntryLess(a, b) ==
    \/ RateLess(b, a)
    \/ RateEq(a, b) /\ HashLess(a.hash, b.hash)

RECURSIVE SiftDownLoop(_, _, _, _)
SiftDownLoop(heap, newitem, startpos, pos) ==
    IF pos > startpos
    THEN LET parentpos == (pos - 1) \div 2
             parent == heap[parentpos + 1]
         IN IF EntryLess(newitem, parent)
            THEN SiftDownLoop([heap EXCEPT ![pos + 1] = parent], newitem, startpos, parentpos)
            ELSE [heap EXCEPT ![pos + 1] = newitem]
    ELSE [heap EXCEPT ![pos + 1] = newitem]

\* heapq._siftdown
SiftDown(heap, startpos, pos) == SiftDownLoop(heap, heap[pos + 1], startpos, pos)

RECURSIVE SiftUpLoop(_, _, _, _)
SiftUpLoop(heap, newitem, startpos, pos) ==
    LET endpos == Len(heap)
        childpos == 2 * pos + 1
        rightpos == childpos + 1
    IN IF childpos < endpos
       THEN LET c == IF rightpos < endpos /\ ~EntryLess(heap[childpos + 1], heap[rightpos + 1])
                     THEN rightpos ELSE childpos
            IN SiftUpLoop([heap EXCEPT ![pos + 1] = heap[c + 1]], newitem, startpos, c)
       ELSE SiftDown([heap EXCEPT ![pos + 1] = newitem], startpos, pos)

\* heapq._siftup
SiftUp(heap, pos) == SiftUpLoop(heap, heap[pos + 1], pos, pos)

\* heapq.heappush
HeapPush(heap, item) == SiftDown(Append(heap, item), 0, Len(heap))

\* heapq.heappop: the popped item and the remaining heap
HeapPop(heap) ==
    LET lastelt == heap[Len(heap)]
        rest == SubSeq(heap, 1, Len(heap) - 1)
    IN IF rest = <<>>
       THEN [item |-> lastelt, heap |-> <<>>]
       ELSE [item |-> rest[1], heap |-> SiftUp([rest EXCEPT ![1] = lastelt], 0)]

-----------------------------------------------------------------------------
(* Mempool: core/mempool.py *)

\* tx_hash in self.transactions
InPool(txs, h) == \E i \in 1..Len(txs) : GetHash(txs[i]) = h

\* self.transactions[tx_hash]
PoolGet(txs, h) == txs[CHOOSE i \in 1..Len(txs) : GetHash(txs[i]) = h]

\* self.transactions[tx_hash] = tx : a present key keeps its position
PoolPut(txs, tx) ==
    IF InPool(txs, GetHash(tx))
    THEN [i \in 1..Len(txs) |-> IF GetHash(txs[i]) = GetHash(tx) THEN tx ELSE txs[i]]
    ELSE Append(txs, tx)

\* del self.transactions[h] for every h in hs that is present
PoolDel(txs, hs) == SelectSeq(txs, LAMBDA t : GetHash(t) \notin hs)

\* total serialized size of the transactions held
HeldSize(txs) == SumSeq([i \in 1..Len(txs) |-> TxSize(txs[i])])

RECURSIVE MakeRoomLoop(_, _, _, _, _, _, _)
\* the while loop of _make_room
MakeRoomLoop(heap, evicted_size, to_evict, temp_heap, needed_size, new_rate, txs) ==
    IF heap # <<>> /\ evicted_size < needed_size
    THEN LET Body(p) ==
                 IF RateLess(p.item, new_rate)
                 THEN MakeRoomLoop(p.heap,
                                   IF InPool(txs, p.item.hash)
                                   THEN evicted_size + TxSize(PoolGet(txs, p.item.hash))
                                   ELSE evicted_size,
                                   Append(to_evict, p.item),
                                   temp_heap, needed_size, new_rate, txs)
                 ELSE MakeRoomLoop(p.heap, evicted_size, to_evict,
                                   Append(temp_heap, p.item), needed_size, new_rate, txs)
         IN Body(HeapPop(heap))
    ELSE [heap |-> heap, evicted_size |-> evicted_size,
          to_evict |-> to_evict, temp_heap |-> temp_heap]

RECURSIVE PushAll(_, _)
\* for item in temp_heap: heapq.heappush(self.tx_by_fee, item)
PushAll(heap, items) ==
    IF items = <<>> THEN heap ELSE PushAll(HeapPush(heap, Head(items)), Tail(items))

\* the decision of _make_room: evict only when enough room was found
MakeRoomEnough(evicted_size, needed_size) == evicted_size >= needed_size

\* Mempool._make_room: result, new heap, new dict and the entries evicted
MakeRoom(heap, txs, needed_size, new_rate) ==
    LET Decide(r, restored) ==
            IF MakeRoomEnough(r.evicted_size, needed_size)
            THEN [ok |-> TRUE, heap |-> restored,
                  txs |-> PoolDel(txs, {r.to_evict[i].hash : i \in 1..Len(r.to_evict)}),
                  evicted |-> {e \in Range(r.to_evict) : InPool(txs, e.hash)}]
            ELSE [ok |-> FALSE, heap |-> restored, txs |-> txs, evicted |-> {}]
        Restore(r) == Decide(r, PushAll(r.heap, r.temp_heap))
    IN Restore(MakeRoomLoop(heap, 0, <<>>, <<>>, needed_size, new_rate, txs))

\* Mempool.add_transaction(tx, fee): result and new pool state
MempoolAdd(heap, txs, csize, msize, tx, fee) ==
    LET tx_hash == GetHash(tx)
        tx_size == TxSize(tx)
        rate == [fee |-> fee, size |-> tx_size]
        entry == [fee |-> fee, size |-> tx_size, hash |-> tx_hash]
        full == csize + tx_size > msize
        Insert(heap1, txs1, evicted) ==
            [ok |-> TRUE, heap |-> HeapPush(heap1, entry), txs |-> PoolPut(txs1, tx),
             csize |-> csize + tx_size, evicted |-> evicted]
        AfterRoom(room) ==
            IF ~room.ok
            THEN [ok |-> FALSE, heap |-> room.heap, txs |-> room.txs, csize |-> csize,
                  evicted |-> {}]
            ELSE Insert(room.heap, room.txs, room.evicted)
    IN IF fee * MIN_FEE_RATE_DEN < MIN_FEE_RATE_NUM * tx_size
       THEN [ok |-> FALSE, heap |-> heap, txs |-> txs, csize |-> csize, evicted |-> {}]
       ELSE IF full
       THEN AfterRoom(MakeRoom(heap, txs, tx_size, rate))
       ELSE Insert(heap, txs, {})

RECURSIVE StableInsert(_, _)
\* insert e behind every element whose key is not greater (sorted() is stable)
StableInsert(s, e) ==
    IF s = <<>> THEN <<e>>
    ELSE IF RateLess(Head(s), e) THEN <<e>> \o s
    ELSE <<Head(s)>> \o StableInsert(Tail(s), e)

RECURSIVE SortedByRate(_)
\* sorted(self.tx_by_fee, key=lambda x: x[0])
SortedByRate(heap) ==
    IF heap = <<>> THEN <<>>
    ELSE StableInsert(SortedByRate(SubSeq(heap, 1, Len(heap) - 1)), heap[Len(heap)])

RECURSIVE SelectLoop(_, _, _, _, _)
SelectLoop(sorted_txs, txs, acc, size, max_block_size) ==
    IF sorted_txs = <<>> THEN acc
    ELSE LET h == Head(sorted_txs).hash
         IN IF ~InPool(txs, h)
            THEN SelectLoop(Tail(sorted_txs), txs, acc, size, max_block_size)
            ELSE LET tx == PoolGet(txs, h)
                 IN IF size + TxSize(tx) <= max_block_size
                    THEN SelectLoop(Tail(sorted_txs), txs,
                                    Append(acc, [tx |-> tx, entry |-> Head(sorted_txs)]),
                                    size + TxSize(tx), max_block_size)
                    ELSE acc

\* the walk of get_transactions_for_block: each selected transaction with
\* the heap entry that selected it
SelectWalk(heap, txs, max_block_size) ==
    SelectLoop(SortedByRate(heap), txs, <<>>, 0, max_block_size)

\* Mempool.get_transactions_for_block
GetTransactionsForBlock(heap, txs, max_block_size) ==
    LET w == SelectWalk(heap, txs, max_block_size) IN [i \in 1..Len(w) |-> w[i].tx]

NoCall == [op |-> "none"]

NoSelection == [op |-> "none", max_block_size |-> 0, txs |-> <<>>, entries |-> <<>>]

\* history record of one Mempool.add_transaction call
CallRecord(tx, fee, r) ==
    [op |-> "add", hash |-> GetHash(tx), fee |-> fee, size |-> TxSize(tx),
     ok |-> r.ok, held |-> HeldSize(transactions), evicted |-> r.evicted]

-----------------------------------------------------------------------------
(* Genesis: XorcoinSystem._create_genesis_block *)

\* XorcoinEconomics.get_block_reward
RECURSIVE Halve(_, _)
Halve(reward, n) == IF n = 0 THEN reward ELSE Halve(reward \div 2, n - 1)

GetBlockReward(height) ==
    IF height = 0 THEN GENESIS_SUPPLY
    ELSE Halve(INITIAL_BLOCK_REWARD, (height - 1) \div HALVING_INTERVAL)

RECURSIVE SupplyLoop(_, _, _, _)
\* the while loop of get_total_supply_at_height
SupplyLoop(height, total, current_reward, blocks_remaining) ==
    IF blocks_remaining > 0 /\ current_reward > 0
    THEN LET Halving(remaining) ==
                 IF (height - remaining) % HALVING_INTERVAL = 0
                 THEN current_reward \div 2 ELSE current_reward
             Body(blocks_at_this_reward) ==
                 SupplyLoop(height, total + blocks_at_this_reward * current_reward,
                            Halving(blocks_remaining - blocks_at_this_reward),
                            blocks_remaining - blocks_at_this_reward)
             level_left == HALVING_INTERVAL
                             - ((height - blocks_remaining) % HALVING_INTERVAL)
         IN Body(IF blocks_remaining < level_left THEN blocks_remaining ELSE level_left)
    ELSE total

\* XorcoinEconomics.get_total_supply_at_height
GetTotalSupplyAtHeight(height) ==
    IF height < 0 THEN 0
    ELSE SupplyLoop(height, GENESIS_SUPPLY, INITIAL_BLOCK_REWARD, height)

GenesisTx == Coinbase(GetBlockReward(0), "genesis")

GenesisBlock == [height |-> 0, timestamp |-> 0, transactions |-> <<GenesisTx>>]

NoProcessing == [active |-> FALSE]

\* no message handled yet
NoMessage ==
    [op |-> "none", seq |-> 0, received |-> 0, peer |-> 0, state_before |-> "none",
     ready_before |-> {}, sent_to |-> {}, admitted |-> FALSE]

\* Blockchain.add_genesis_block: Block(height=0, prev_block_hash="0"*64),
\* mined; the header hash is modelled by the header itself
BCGenesis ==
    [height |-> 0, prev_block_hash |-> <<>>, merkle_root |-> <<>>,
     difficulty |-> BC_DIFFICULTY, nonce |-> 1, transactions |-> <<>>]

\* the objects that are driven on their own, after their construction
ExtInit ==
    /\ rw = [readers |-> 0, owner |-> 0, pc |-> [t \in RWThreads |-> "idle"]]
    /\ bc = [objs |-> <<BCGenesis>>, chain |-> <<1>>, last |-> 0]
    /\ reorg = NoCall
    /\ pm = NoCall
    /\ ban = NoCall
    /\ relay = [state |-> [p \in RelayPeers |-> "connected"],
                score |-> [p \in RelayPeers |-> INITIAL_SCORE],
                requested_blocks |-> {}, requested_txs |-> {}, known_peers |-> {},
                seq |-> 0, op |-> "none", peer |-> 0, state_before |-> "none",
                getdata |-> {}, inv_to |-> {}, item_valid |-> TRUE]

\* RateLimiter.__init__, P2PNode.__init__ and PeerManager.__init__: no request
\* seen, no peer, no connection counted, nothing in progress
NetInit ==
    /\ requests = <<>>
    /\ rl = [thread |-> [t \in RecvThreads |-> [pc |-> "idle"]],
             calls |-> 0, refused |-> 0, allowed |-> <<>>]
    /\ gbcall = NoCall
    /\ diffcall = NoCall
    /\ peer_objs = <<>>
    /\ peers = <<>>
    /\ connections_per_ip = <<>>
    /\ netlog = NoMessage
    /\ handshake = NoCall
    /\ ibd = NoCall
    /\ ExtInit

\* the variables that only some specifications move
AuxInit ==
    /\ NetInit
    /\ now = 0
    /\ pb = NoProcessing
    /\ observed = NoCall
    /\ batchcall = NoCall
    /\ bvcall = NoCall
    /\ econ = NoCall

\* the UTXOs a transaction creates: _process_block, "Add new UTXOs"
RECURSIVE AddOutputs(_, _, _)
AddOutputs(u, tx, idx) ==
    IF idx > Len(tx.outputs) THEN u
    ELSE LET id == UtxoId(GetHash(tx), idx - 1)
             new == [amount |-> tx.outputs[idx].amount,
                     script_pubkey |-> tx.outputs[idx].script_pubkey]
         IN AddOutputs([k \in DOMAIN u \cup {id} |-> IF k = id THEN new ELSE u[k]],
                       tx, idx + 1)

-----------------------------------------------------------------------------
(* SpecMP: a Mempool object used directly *)

\* a transaction offered to the pool: k fixes the hashed content, size is the
\* length of its serialization (signature bytes included)
PoolTx(k, size) ==
    [inputs |-> <<UtxoId(GetHash(GenesisTx), k)>>,
     outputs |-> <<[amount |-> 10, script_pubkey |-> "M"]>>,
     signature |-> 2, size |-> size]

InitMP ==
    /\ utxos = AddOutputs(<<>>, GenesisTx, 1)
    /\ chain = <<GenesisBlock>>
    /\ transactions = <<>>
    /\ tx_by_fee = <<>>
    /\ current_size = 0
    /\ max_size = MaxPoolSize
    /\ spent_utxos = {}
    /\ pending_utxos = <<>>
    /\ pc = [t \in Threads |-> "idle"]
    /\ cur = [t \in Threads |-> GenesisTx]
    /\ calls = 0
    /\ last = NoCall
    /\ lockcall = NoCall
    /\ admitted = <<>>
    /\ selected = NoSelection
    /\ AuxInit

\* the effect of one Mempool.add_transaction(tx, fee) call on the model
MPCall(tx, fee) ==
    LET Result(r) ==
            /\ tx_by_fee' = r.heap
            /\ transactions' = r.txs
            /\ current_size' = r.csize
            /\ last' = CallRecord(tx, fee, r)
    IN /\ Result(MempoolAdd(tx_by_fee, transactions, current_size, max_size, tx, fee))
       /\ calls' = calls + 1
       /\ selected' = NoSelection
       /\ UNCHANGED <<ledgerVars, guardVars, max_size, pc, cur, lockcall, admitted,
                   auxVars>>

\* Mempool.add_transaction(tx, fee) for a transaction the pool does not hold
MPAddTransaction ==
    /\ calls < MaxPoolCalls
    /\ \E k \in 1..MaxPoolTxs, size \in TxSizes, fee \in PoolFees :
         /\ ~InPool(transactions, GetHash(PoolTx(k, size)))
         /\ MPCall(PoolTx(k, size), fee)

\* Mempool.add_transaction(tx, fee) for a transaction whose txid the pool
\* holds already (the same transaction, or one that differs in its signature)
MPResubmit ==
    /\ calls < MaxPoolCalls
    /\ \E k \in 1..MaxPoolTxs, size \in TxSizes, fee \in PoolFees :
         /\ InPool(transactions, GetHash(PoolTx(k, size)))
         /\ MPCall(PoolTx(k, size), fee)

\* Mempool.get_transactions_for_block(max_block_size)
MPGetTransactionsForBlock ==
    /\ \E m \in 0..MaxPoolSize :
         selected' = [op |-> "select", max_block_size |-> m,
                      txs |-> GetTransactionsForBlock(tx_by_fee, transactions, m),
                      entries |-> LET w == SelectWalk(tx_by_fee, transactions, m)
                                  IN [i \in 1..Len(w) |-> w[i].entry]]
    /\ UNCHANGED <<ledgerVars, poolVars, guardVars, pc, cur, calls, last, lockcall,
                   admitted,
                   auxVars>>

NextMP == MPAddTransaction \/ MPGetTransactionsForBlock

SpecMP == InitMP /\ [][NextMP]_vars

\* the same pool when callers also resubmit transactions it holds
NextMPAny == MPAddTransaction \/ MPResubmit

SpecMPAny == InitMP /\ [][NextMPAny]_vars

-----------------------------------------------------------------------------
(* DoubleSpendProtector: security/double_spend.py *)

\* (mutant) the first loop when it looks at spent_utxos only
AnyLockedSpentOnly(inputs, spent, pending) ==
    \E i \in 1..Len(inputs) : inputs[i] \in spent

RECURSIVE AnyLocked(_, _, _)
\* first loop of check_and_lock_utxos: is some input spent or pending
AnyLocked(inputs, spent, pending) ==
    IF inputs = <<>> THEN FALSE
    ELSE IF Head(inputs) \in spent \/ Head(inputs) \in DOMAIN pending THEN TRUE
    ELSE AnyLocked(Tail(inputs), spent, pending)

RECURSIVE LockAll(_, _, _)
\* second loop of check_and_lock_utxos: pending_utxos[utxo_id] = tx
LockAll(inputs, pending, h) ==
    IF inputs = <<>> THEN pending
    ELSE LockAll(Tail(inputs),
                 [k \in DOMAIN pending \cup {Head(inputs)} |->
                    IF k = Head(inputs) THEN h ELSE pending[k]],
                 h)

\* (mutant) check_and_lock_utxos when it reserves each free input as it goes
CheckAndLockUtxosPartial(tx, spent, pending) ==
    LET free == SelectSeq(tx.inputs, LAMBDA id : id \notin spent /\ id \notin DOMAIN pending)
    IN [ok |-> ~AnyLocked(tx.inputs, spent, pending),
        pending |-> LockAll(free, pending, GetHash(tx))]

\* check_and_lock_utxos(tx): result and new pending_utxos
CheckAndLockUtxos(tx, spent, pending) ==
    IF AnyLocked(tx.inputs, spent, pending)
    THEN [ok |-> FALSE, pending |-> pending]
    ELSE [ok |-> TRUE, pending |-> LockAll(tx.inputs, pending, GetHash(tx))]

\* rollback_transaction(tx): pending_utxos.pop(utxo_id, None) for every input
RollbackTransaction(tx, pending) ==
    [k \in DOMAIN pending \ Range(tx.inputs) |-> pending[k]]

-----------------------------------------------------------------------------
(* TransactionValidator: validation/transaction.py *)

\* SignatureManager.normalize_signature: s > n // 2 becomes n - s
NormalizeSignature(sig) == IF sig > CurveOrder \div 2 THEN CurveOrder - sig ELSE sig

\* public_key.verify of the cryptography library: plain ECDSA verification
LibraryVerify(sig) == sig \in GoodS

\* SignatureManager.verify_signature: normalizes, then verifies
VerifySignature(sig) == LibraryVerify(NormalizeSignature(sig))

\* _verify_input_signature: a signature must be present, the key must hash to
\* the address of the UTXO (no key hashes to the literal address "genesis")
\* and the signature must verify
VerifyInputSignature(tx, idx, expected_address) ==
    /\ tx.signature # NoSignature
    /\ expected_address # "genesis"
    /\ VerifySignature(tx.signature)

\* _is_double_spend_in_mempool
IsDoubleSpendInMempool(mempool, utxo_id) ==
    \E i \in 1..Len(mempool) : utxo_id \in Range(mempool[i].inputs)

\* validate_transaction
ValidateTransaction(tx, u, mempool) ==
    /\ tx.inputs # <<>>
    /\ tx.outputs # <<>>
    /\ \A idx \in 1..Len(tx.inputs) :
         LET utxo_id == tx.inputs[idx]
         IN /\ utxo_id \in DOMAIN u
            /\ \A j \in 1..(idx - 1) : tx.inputs[j] # utxo_id
            /\ VerifyInputSignature(tx, idx, u[utxo_id].script_pubkey)
            /\ ~IsDoubleSpendInMempool(mempool, utxo_id)
    /\ SumSeq([i \in 1..Len(tx.inputs) |-> u[tx.inputs[i]].amount])
         >= SumSeq([i \in 1..Len(tx.outputs) |-> tx.outputs[i].amount])

\* calculate_transaction_fee
CalculateTransactionFee(tx, u) ==
    SumSeq([i \in 1..Len(tx.inputs) |->
              IF tx.inputs[i] \in DOMAIN u THEN u[tx.inputs[i]].amount ELSE 0])
    - SumSeq([i \in 1..Len(tx.outputs) |-> tx.outputs[i].amount])

-----------------------------------------------------------------------------
(* XorcoinSystem: system.py *)

\* ThreadSafeUTXOSet.remove_utxo for every input of tx
RemoveInputs(u, tx) == [k \in DOMAIN u \ Range(tx.inputs) |-> u[k]]

\* the body of the loop of _process_block for one transaction
ProcessTx(u, tx) == AddOutputs(RemoveInputs(u, tx), tx, 1)

RECURSIVE ProcessBlock(_, _)
\* _process_block: the transactions of the block, in order
ProcessBlock(u, txs) ==
    IF txs = <<>> THEN u ELSE ProcessBlock(ProcessTx(u, Head(txs)), Tail(txs))

\* list(self.mempool.transactions.values())[:10]
BlockCandidates(txs) ==
    SubSeq(txs, 1, IF Len(txs) < BLOCK_TX_LIMIT THEN Len(txs) ELSE BLOCK_TX_LIMIT)

\* an order on utxo ids, used to list each pair of inputs once
IdLess(x, y) ==
    SeqLess(HashDigits(x.prev_tx_hash) \o <<x.prev_output_index>>,
            HashDigits(y.prev_tx_hash) \o <<y.prev_output_index>>)

\* the outpoints a caller can name: created at some time, unspent or not
KnownIds == DOMAIN utxos \cup DOMAIN pending_utxos \cup spent_utxos

\* amount, signature and size of the transactions submitted: the ordinary
\* ones, one that pays 0 and one signed with the high-S twin
OfferedShapes ==
    {[amount |-> a, signature |-> sg, size |-> sz] :
        a \in TxAmounts, sg \in OfferedSignatures, sz \in SysTxSizes}
    \cup {[amount |-> 0, signature |-> 2, size |-> 1],
          [amount |-> 10, signature |-> CurveOrder - 2, size |-> 1]}

\* the transactions submitted to add_transaction
OfferedTxs ==
    {[inputs |-> ins, outputs |-> <<[amount |-> sh.amount, script_pubkey |-> to]>>,
      signature |-> sh.signature, size |-> sh.size] :
        ins \in {<<x>> : x \in KnownIds}
                  \cup {q \in KnownIds \X KnownIds : IdLess(q[1], q[2])},
        sh \in OfferedShapes, to \in Payees}

Init ==
    /\ utxos = AddOutputs(<<>>, GenesisTx, 1)
    /\ chain = <<GenesisBlock>>
    /\ transactions = <<>>
    /\ tx_by_fee = <<>>
    /\ current_size = 0
    /\ max_size = MaxPoolSize
    /\ spent_utxos = {}
    /\ pending_utxos = <<>>
    /\ pc = [t \in Threads |-> "idle"]
    /\ cur = [t \in Threads |-> GenesisTx]
    /\ calls = 0
    /\ last = NoCall
    /\ lockcall = NoCall
    /\ admitted = <<>>
    /\ selected = NoSelection
    /\ AuxInit

\* add_transaction, lines 190-193: the guard, under its lock
AddTxLock(t) ==
    /\ pc[t] = "idle"
    /\ \A u \in 1..(t - 1) : pc[u] # "idle"   \* threads are interchangeable
    /\ calls < MaxCalls
    /\ \E tx \in OfferedTxs :
         LET r == CheckAndLockUtxos(tx, spent_utxos, pending_utxos)
         IN /\ pending_utxos' = r.pending
            /\ lockcall' = [op |-> "lock", ok |-> r.ok,
                             free |-> \A id \in Range(tx.inputs) :
                                        /\ id \notin spent_utxos
                                        /\ id \notin DOMAIN pending_utxos]
            /\ pc' = [pc EXCEPT ![t] = IF r.ok THEN "validate" ELSE "idle"]
            /\ cur' = [cur EXCEPT ![t] = IF r.ok THEN tx ELSE GenesisTx]
    /\ calls' = calls + 1
    /\ UNCHANGED <<ledgerVars, poolVars, spent_utxos, last, admitted, selected,
                   auxVars>>

\* add_transaction, lines 196-200 and 211-212: validation and the fee
AddTxValidate(t) ==
    /\ pc[t] = "validate"
    /\ pc' = [pc EXCEPT ![t] = IF ValidateTransaction(cur[t], utxos, transactions)
                               THEN "mempool" ELSE "rollback"]
    /\ UNCHANGED <<ledgerVars, poolVars, guardVars, cur, calls, last, lockcall,
                   admitted, selected,
                   auxVars>>

\* add_transaction, lines 203-207: the mempool
AddTxMempool(t) ==
    /\ pc[t] = "mempool"
    /\ LET Result(tx, fee, r) ==
               /\ tx_by_fee' = r.heap
               /\ transactions' = r.txs
               /\ current_size' = r.csize
               /\ last' = CallRecord(tx, fee, r)
               /\ admitted' = IF r.ok THEN Append(admitted, tx) ELSE admitted
               /\ pc' = [pc EXCEPT ![t] = IF r.ok THEN "idle" ELSE "rollback"]
               /\ cur' = [cur EXCEPT ![t] = IF r.ok THEN GenesisTx ELSE tx]
           Submit(tx, fee) ==
               Result(tx, fee,
                      MempoolAdd(tx_by_fee, transactions, current_size, max_size, tx, fee))
       IN Submit(cur[t], CalculateTransactionFee(cur[t], utxos))
    /\ UNCHANGED <<ledgerVars, max_size, guardVars, calls, lockcall, selected,
                   auxVars>>

\* add_transaction, lines 209-210 and 214-215: release the locks
AddTxRollback(t) ==
    /\ pc[t] = "rollback"
    /\ pending_utxos' = RollbackTransaction(cur[t], pending_utxos)
    /\ pc' = [pc EXCEPT ![t] = "idle"]
    /\ cur' = [cur EXCEPT ![t] = GenesisTx]
    /\ UNCHANGED <<ledgerVars, poolVars, spent_utxos, calls, last, lockcall,
                   admitted, selected,
                   auxVars>>

\* (mutant) the removal when it skips one transaction too many
ClearedFromPoolSkipFirst(block_txs) ==
    {GetHash(block_txs[i]) : i \in 3..Len(block_txs)}

\* the transactions mine_block removes from the pool after the block
ClearedFromPool(block_txs) ==
    {GetHash(block_txs[i]) : i \in 2..Len(block_txs)}

\* mine_block(miner_address)
MineBlock(miner_address) ==
    /\ Len(chain) <= MaxBlocks
    /\ LET current_height == Len(chain)
           actual_reward == GetBlockReward(current_height)
           coinbase_tx == Coinbase(actual_reward, miner_address)
           block_txs == <<coinbase_tx>> \o BlockCandidates(transactions)
           block == [height |-> Len(chain), timestamp |-> now, transactions |-> block_txs]
       IN /\ chain' = Append(chain, block)
          /\ utxos' = ProcessBlock(utxos, block_txs)
          /\ transactions' = PoolDel(transactions, ClearedFromPool(block_txs))
    /\ UNCHANGED <<tx_by_fee, current_size, max_size, guardVars, pc, cur, calls,
                   last, lockcall, admitted, selected,
                   auxVars>>

Next ==
    \/ \E t \in Threads : AddTxLock(t)
    \/ \E t \in Threads : AddTxValidate(t)
    \/ \E t \in Threads : AddTxMempool(t)
    \/ \E t \in Threads : AddTxRollback(t)
    \/ \E m \in Miners : MineBlock(m)

Spec == Init /\ [][Next]_vars

-----------------------------------------------------------------------------
(* Derived views of the chain *)

\* the non-coinbase transactions of the chain, in chain order
ConfirmedTxs ==
    Concat([b \in 1..Len(chain) |-> Tail(chain[b].transactions)])

\* the coinbase transactions of the chain, genesis included
CoinbaseTxs == [b \in 1..Len(chain) |-> Head(chain[b].transactions)]

\* the amount and the owner of an outpoint, read from the transaction that
\* created it
OutpointAmount(id) == id.prev_tx_hash.outputs[id.prev_output_index + 1].amount
OutpointOwner(id) == id.prev_tx_hash.outputs[id.prev_output_index + 1].script_pubkey

\* inputs minus outputs of a confirmed transaction
FeeOf(tx) ==
    SumSeq([i \in 1..Len(tx.inputs) |-> OutpointAmount(tx.inputs[i])])
    - SumSeq([i \in 1..Len(tx.outputs) |-> tx.outputs[i].amount])

\* ThreadSafeUTXOSet.get_balance
GetBalance(address) ==
    SumSet([id \in DOMAIN utxos |-> utxos[id].amount],
           {id \in DOMAIN utxos : utxos[id].script_pubkey = address})

-----------------------------------------------------------------------------
(* Properties of XorcoinSystem, checked under Spec *)

\* C1: no outpoint is referenced by the inputs of two different transactions
\* that were included in blocks of the chain
NoDoubleSpend ==
    \A i, j \in 1..Len(ConfirmedTxs) :
        GetHash(ConfirmedTxs[i]) # GetHash(ConfirmedTxs[j])
        => Range(ConfirmedTxs[i].inputs) \cap Range(ConfirmedTxs[j].inputs) = {}

\* two different transactions are confirmed
TwoConfirmed ==
    \E i, j \in 1..Len(ConfirmedTxs) :
        GetHash(ConfirmedTxs[i]) # GetHash(ConfirmedTxs[j])

\* C2 (as claimed): the amounts in the UTXO set add up to the subsidies of the
\* heights 0..tip minus the fees that no coinbase collected
Conservation ==
    LET subsidies == SumSeq([b \in 1..Len(chain) |-> GetBlockReward(chain[b].height)])
        fees == SumSeq([i \in 1..Len(ConfirmedTxs) |-> FeeOf(ConfirmedTxs[i])])
        collected == SumSeq([b \in 1..Len(chain) |->
                        CoinbaseTxs[b].outputs[1].amount - GetBlockReward(chain[b].height)])
    IN SumSet([id \in DOMAIN utxos |-> utxos[id].amount], DOMAIN utxos)
         = subsidies - (fees - collected)

\* C3 (as claimed): a miner that spent nothing and was paid by no transaction
\* owns the sum of the coinbase amounts of the blocks it mined
CoinbaseOutpointsDistinct ==
    \A a \in Miners :
        (\A i \in 1..Len(ConfirmedTxs) :
            /\ \A id \in Range(ConfirmedTxs[i].inputs) : OutpointOwner(id) # a
            /\ \A o \in Range(ConfirmedTxs[i].outputs) : o.script_pubkey # a)
        => GetBalance(a)
             = SumSeq([b \in 1..Len(chain) |->
                         IF CoinbaseTxs[b].outputs[1].script_pubkey = a
                         THEN CoinbaseTxs[b].outputs[1].amount ELSE 0])

\* C4: every input of every transaction in the mempool is in the UTXO set, is
\* reserved by the guard and is not in the guard's spent set
MempoolLedgerDisjoint ==
    \A i \in 1..Len(transactions) :
        \A id \in Range(transactions[i].inputs) :
            /\ id \in DOMAIN utxos
            /\ id \in DOMAIN pending_utxos
            /\ id \notin spent_utxos

\* a transaction waits in the mempool while another one is already confirmed
PoolAfterConfirmation == Len(transactions) >= 1 /\ Len(ConfirmedTxs) >= 1

\* the transactions admitted so far have pairwise disjoint inputs
AdmittedDisjoint ==
    \A i, j \in 1..Len(admitted) :
        i # j => Range(admitted[i].inputs) \cap Range(admitted[j].inputs) = {}

\* one step of check_and_lock_utxos: it succeeds exactly when every input was
\* free, then all inputs are reserved; when it fails the guard is unchanged
LockStepAtomic ==
    calls' = calls + 1 =>
        /\ lockcall'.ok <=> lockcall'.free
        /\ lockcall'.ok =>
             \E t \in Threads :
                /\ pc[t] = "idle" /\ pc'[t] = "validate"
                /\ Range(cur'[t].inputs) \subseteq DOMAIN pending_utxos'
                /\ \A id \in DOMAIN pending_utxos' \ Range(cur'[t].inputs) :
                      id \in DOMAIN pending_utxos /\ pending_utxos'[id] = pending_utxos[id]
        /\ ~lockcall'.ok => UNCHANGED <<spent_utxos, pending_utxos, pc>>

\* C5: check_and_lock_utxos is atomic (all inputs free: all reserved, else
\* nothing changes), and of the add_transaction calls whose transactions
\* share an input at most one is admitted
CheckAndLockAtomic == [][LockStepAtomic]_vars /\ []AdmittedDisjoint

\* a call was refused by the guard after a transaction had been admitted
RefusedAfterAdmission ==
    lockcall.op = "lock" /\ ~lockcall.ok /\ Len(admitted) >= 1

\* C6 (as claimed): the inputs of every confirmed transaction are in the
\* guard's spent set and no longer reserved
CommittedOnInclusion ==
    \A i \in 1..Len(ConfirmedTxs) :
        \A id \in Range(ConfirmedTxs[i].inputs) :
            id \in spent_utxos /\ id \notin DOMAIN pending_utxos

\* C9 (as claimed): a transaction at or above the minimum fee rate that fits
\* beside the transactions held is accepted and nothing is evicted
AcceptsWhenItFits ==
    (/\ last.op = "add"
     /\ last.fee * MIN_FEE_RATE_DEN >= MIN_FEE_RATE_NUM * last.size
     /\ last.held + last.size <= max_size)
    => last.ok /\ last.evicted = {}

\* C11 (as claimed): the coinbase of every mined block pays the subsidy of the
\* block's height plus the fees of the other transactions of the block
CoinbasePaysFees ==
    \A b \in 2..Len(chain) :
        CoinbaseTxs[b].outputs[1].amount
          = GetBlockReward(chain[b].height)
            + SumSeq([i \in 1..(Len(chain[b].transactions) - 1) |->
                        FeeOf(chain[b].transactions[i + 1])])

\* C18 (as claimed): no transaction with an output amount <= 0 passes
\* validate_transaction, and every UTXO has an amount > 0
PositiveAmounts ==
    /\ \A t \in Threads :
          pc[t] = "mempool" => \A o \in Range(cur[t].outputs) : o.amount > 0
    /\ \A id \in DOMAIN utxos : utxos[id].amount > 0

\* C19 (as claimed): no transaction carrying a high-S signature passes
\* validate_transaction, so none is admitted
HighSRejected ==
    /\ \A t \in Threads : pc[t] = "mempool" => cur[t].signature <= CurveOrder \div 2
    /\ \A i \in 1..Len(admitted) : admitted[i].signature <= CurveOrder \div 2

-----------------------------------------------------------------------------
(* SpecBatch: ThreadSafeUTXOSet.batch_update called directly *)

RECURSIVE PopAll(_, _)
\* for utxo_id in to_remove: self.utxos.pop(utxo_id, None)
PopAll(u, to_remove) ==
    IF to_remove = <<>> THEN u
    ELSE PopAll([k \in DOMAIN u \ {Head(to_remove)} |-> u[k]], Tail(to_remove))

RECURSIVE PutAll(_, _)
\* for utxo in to_add: self.utxos[utxo.get_id()] = utxo
PutAll(u, to_add) ==
    IF to_add = <<>> THEN u
    ELSE PutAll([k \in DOMAIN u \cup {Head(to_add).id} |->
                   IF k = Head(to_add).id THEN Head(to_add).utxo ELSE u[k]],
                Tail(to_add))

\* batch_update(to_add, to_remove): the new set and whether an exception left
\* the call (no statement of the body raises)
BatchUpdate(u, to_add, to_remove) ==
    [utxos |-> PutAll(PopAll(u, to_remove), to_add), raised |-> FALSE]

\* the UTXOs handed to batch_update: the coinbase outputs of some blocks
BatchUtxos ==
    {[id |-> UtxoId(GetHash(Coinbase(INITIAL_BLOCK_REWARD, a)), 0),
      utxo |-> [amount |-> INITIAL_BLOCK_REWARD, script_pubkey |-> a]] : a \in Miners}

\* the ids handed to batch_update
BatchIds == {x.id : x \in BatchUtxos} \cup {UtxoId(GetHash(GenesisTx), 0)}

\* the sequences over S of length at most MaxBatch
ListsOf(S) == UNION {[1..n -> S] : n \in 0..MaxBatch}

\* batch_update(to_add, to_remove)
BatchUpdateCall ==
    /\ \E to_add \in ListsOf(BatchUtxos), to_remove \in ListsOf(BatchIds) :
         LET Result(r) ==
                 /\ utxos' = r.utxos
                 /\ batchcall' = [op |-> "batch", to_add |-> to_add,
                                  to_remove |-> to_remove, before |-> utxos,
                                  raised |-> r.raised]
         IN Result(BatchUpdate(utxos, to_add, to_remove))
    /\ UNCHANGED <<chain, poolVars, guardVars, pc, cur, calls, last, lockcall,
                   admitted, selected, now, pb, observed, bvcall, econ,
                   netVars>>

NextBatch == BatchUpdateCall

SpecBatch == Init /\ [][NextBatch]_vars

\* C13 (as claimed): a batch that names an absent id to remove fails and
\* leaves the set as it was
UnknownOutpointDiscardsBatch ==
    (/\ batchcall.op = "batch"
     /\ \E i \in 1..Len(batchcall.to_remove) :
           batchcall.to_remove[i] \notin DOMAIN batchcall.before)
    => batchcall.raised /\ utxos = batchcall.before

-----------------------------------------------------------------------------
(* SpecPB: mine_block with _process_block taken one UTXO call at a time, *)
(* add_transaction by one thread and a reader of the UTXO set            *)

\* the calls _process_block makes for one transaction: remove_utxo for every
\* input, then add_utxo for every output
TxOps(tx) ==
    [i \in 1..Len(tx.inputs) |-> [kind |-> "remove", id |-> tx.inputs[i]]]
    \o [i \in 1..Len(tx.outputs) |->
          [kind |-> "add", id |-> UtxoId(GetHash(tx), i - 1),
           utxo |-> [amount |-> tx.outputs[i].amount,
                     script_pubkey |-> tx.outputs[i].script_pubkey]]]

\* the calls _process_block makes for a block, in order
BlockOps(txs) == Concat([i \in 1..Len(txs) |-> TxOps(txs[i])])

\* ThreadSafeUTXOSet.add_utxo / remove_utxo, each under the write lock
ApplyOp(u, op) ==
    IF op.kind = "remove"
    THEN [k \in DOMAIN u \ {op.id} |-> u[k]]
    ELSE [k \in DOMAIN u \cup {op.id} |-> IF k = op.id THEN op.utxo ELSE u[k]]

\* mine_block up to blockchain.add_block: the block is built and appended
PBMineBegin(miner_address) ==
    /\ ~pb.active
    /\ Len(chain) <= MaxPBBlocks
    /\ LET current_height == Len(chain)
           actual_reward == GetBlockReward(current_height)
           coinbase_tx == Coinbase(actual_reward, miner_address)
           block_txs == <<coinbase_tx>> \o BlockCandidates(transactions)
           block == [height |-> Len(chain), timestamp |-> now, transactions |-> block_txs]
       IN /\ chain' = Append(chain, block)
          /\ pb' = [active |-> TRUE, txs |-> block_txs, ops |-> BlockOps(block_txs),
                    before |-> utxos]
    /\ UNCHANGED <<utxos, poolVars, guardVars, pc, cur, calls, last, lockcall,
                   admitted, selected, now, observed, batchcall, bvcall, econ,
                   netVars>>

\* one add_utxo or remove_utxo call of _process_block
PBProcessStep ==
    /\ pb.active
    /\ pb.ops # <<>>
    /\ utxos' = ApplyOp(utxos, Head(pb.ops))
    /\ pb' = [pb EXCEPT !.ops = Tail(pb.ops)]
    /\ UNCHANGED <<chain, poolVars, guardVars, pc, cur, calls, last, lockcall,
                   admitted, selected, now, observed, batchcall, bvcall, econ,
                   netVars>>

\* mine_block after _process_block: the block's transactions leave the pool
PBMineEnd ==
    /\ pb.active
    /\ pb.ops = <<>>
    /\ transactions' = PoolDel(transactions, ClearedFromPool(pb.txs))
    /\ pb' = NoProcessing
    /\ UNCHANGED <<ledgerVars, tx_by_fee, current_size, max_size, guardVars, pc, cur,
                   calls, last, lockcall, admitted, selected, now, observed,
                   batchcall, bvcall, econ,
                   netVars>>

\* get_balance(address) by another thread, under the read lock; partial
\* tells whether the set it read was neither the one before the block nor
\* the one after it
PBGetBalance(address) ==
    /\ observed' = [op |-> "read", address |-> address, balance |-> GetBalance(address),
                    partial |-> /\ pb.active
                                /\ utxos # pb.before
                                /\ utxos # ProcessBlock(pb.before, pb.txs)]
    /\ UNCHANGED <<ledgerVars, poolVars, guardVars, pc, cur, calls, last, lockcall,
                   admitted, selected, now, pb, batchcall, bvcall, econ,
                   netVars>>

NextPB ==
    \/ AddTxLock(1)
    \/ AddTxValidate(1)
    \/ AddTxMempool(1)
    \/ AddTxRollback(1)
    \/ \E m \in Miners : PBMineBegin(m)
    \/ PBProcessStep
    \/ PBMineEnd
    \/ \E a \in Miners : PBGetBalance(a)

SpecPB == Init /\ [][NextPB]_vars

\* C14 (as claimed): no reader sees the UTXO set with only a part of a
\* block's removals and additions applied
ReadersSeeWholeBlocks == observed.op = "read" => ~observed.partial

-----------------------------------------------------------------------------
(* BlockValidator: validation/block.py, and ConsensusRules *)

\* Block.calculate_merkle_root: a digest of the list of txids, modelled by
\* the list itself
CalculateMerkleRoot(block) ==
    [i \in 1..Len(block.transactions) |-> GetHash(block.transactions[i])]

\* _validate_structure
ValidateStructure(block) == block.transactions # <<>> /\ block.height >= 0

\* _validate_pow: the header hash starts with block.difficulty zeros;
\* hash_zeros is the number of zeros the header hash starts with
ValidatePow(block) == block.hash_zeros >= block.difficulty

\* ConsensusRules.validate_timestamp
ValidateTimestamp(block, previous_block, current_time) ==
    /\ ~(block.timestamp > current_time + MAX_TIME_DRIFT)
    /\ ~(block.timestamp <= previous_block.timestamp)

\* ConsensusRules.validate_block_size: len(str(block).encode())
ValidateBlockSize(block) ==
    SumSeq([i \in 1..Len(block.transactions) |-> TxSize(block.transactions[i])])
      <= MAX_BLOCK_SIZE

\* _validate_merkle_root
ValidateMerkleRoot(block) == CalculateMerkleRoot(block) = block.merkle_root

\* _validate_transactions: no outpoint is named twice by the inputs of the
\* transactions behind the coinbase
ValidateTransactions(block) ==
    LET ins == Concat([i \in 1..(Len(block.transactions) - 1) |->
                         block.transactions[i + 1].inputs])
    IN \A i, j \in 1..Len(ins) : i # j => ins[i] # ins[j]

\* _validate_coinbase
ValidateCoinbase(block) ==
    /\ block.transactions # <<>>
    /\ block.transactions[1].inputs = <<>>
    /\ block.transactions[1].outputs # <<>>

\* validate_block(block, previous_block)
ValidateBlock(block, previous_block, current_time) ==
    /\ ValidateStructure(block)
    /\ ValidatePow(block)
    /\ ValidateTimestamp(block, previous_block, current_time)
    /\ ValidateBlockSize(block)
    /\ ValidateMerkleRoot(block)
    /\ ValidateTransactions(block)
    /\ ValidateCoinbase(block)

-----------------------------------------------------------------------------
(* SpecBV: blocks offered to BlockValidator.validate_block on top of the *)
(* chain that one mine_block call leaves                                 *)

\* an outpoint that no transaction created
UnknownId == UtxoId(GetHash(GenesisTx), 1)

\* the transactions found behind the coinbase of the blocks offered
BodyTxs ==
    {[inputs |-> <<id>>, outputs |-> <<[amount |-> a, script_pubkey |-> to]>>,
      signature |-> 2, size |-> 1] :
        id \in DOMAIN utxos \cup {UnknownId}, a \in {10, 60}, to \in Payees}

\* what the coinbase of the blocks offered pays above the subsidy
CoinbaseExtras == {0, 40, 41}

\* the blocks offered for validation at the tip of the chain
OfferedBlocks ==
    {[height |-> Len(chain), timestamp |-> ts, difficulty |-> d, hash_zeros |-> z,
      merkle_root |-> IF mr THEN <<GetHash(cb)>> \o [i \in 1..Len(body) |-> GetHash(body[i])]
                      ELSE <<>>,
      transactions |-> <<cb>> \o body] :
        ts \in {chain[Len(chain)].timestamp, chain[Len(chain)].timestamp + 1},
        d \in {0, CHAIN_DIFFICULTY}, z \in {0, CHAIN_DIFFICULTY}, mr \in BOOLEAN,
        cb \in {Coinbase(GetBlockReward(Len(chain)) + x, "M") : x \in CoinbaseExtras},
        body \in UNION {[1..n -> BodyTxs] : n \in 0..MaxBodyTxs}}

\* validate_block(block, chain tip)
BVValidateBlock ==
    /\ \E block \in OfferedBlocks :
         bvcall' = [op |-> "validate_block", block |-> block,
                    ok |-> ValidateBlock(block, chain[Len(chain)], now)]
    /\ UNCHANGED <<ledgerVars, poolVars, guardVars, pc, cur, calls, last, lockcall,
                   admitted, selected, now, pb, observed, batchcall, econ,
                   netVars>>

NextBV == BVValidateBlock

\* the first block of a miner: genesis, then mine_block("M")
FirstBlock ==
    [height |-> 1, timestamp |-> 0,
     transactions |-> <<Coinbase(GetBlockReward(1), "M")>>]

\* the system after its construction and one mine_block("M") call
InitBV ==
    /\ utxos = ProcessBlock(AddOutputs(<<>>, GenesisTx, 1), FirstBlock.transactions)
    /\ chain = <<GenesisBlock, FirstBlock>>
    /\ transactions = <<>>
    /\ tx_by_fee = <<>>
    /\ current_size = 0
    /\ max_size = MaxPoolSize
    /\ spent_utxos = {}
    /\ pending_utxos = <<>>
    /\ pc = [t \in Threads |-> "idle"]
    /\ cur = [t \in Threads |-> GenesisTx]
    /\ calls = 0
    /\ last = NoCall
    /\ lockcall = NoCall
    /\ admitted = <<>>
    /\ selected = NoSelection
    /\ AuxInit

SpecBV == InitBV /\ [][NextBV]_vars

\* the block of the most recent validate_block call was accepted
BlockAccepted == bvcall.op = "validate_block" /\ bvcall.ok

\* C15 (as claimed): an accepted block's header hash meets the target of the
\* chain's current difficulty
PowMeetsChainDifficulty ==
    BlockAccepted => bvcall.block.hash_zeros >= CHAIN_DIFFICULTY

\* C16 (as claimed): the coinbase of an accepted block pays at most the
\* subsidy of its height plus the fees of its other transactions
CoinbaseWithinSubsidy ==
    BlockAccepted =>
        SumSeq([i \in 1..Len(bvcall.block.transactions[1].outputs) |->
                  bvcall.block.transactions[1].outputs[i].amount])
          <= GetBlockReward(bvcall.block.height)
             + SumSeq([i \in 1..(Len(bvcall.block.transactions) - 1) |->
                         CalculateTransactionFee(bvcall.block.transactions[i + 1], utxos)])

RECURSIVE BodyValid(_, _)
\* every transaction passes validate_transaction against the UTXO set as the
\* transactions before it left it
BodyValid(u, txs) ==
    \/ txs = <<>>
    \/ /\ ValidateTransaction(Head(txs), u, <<>>)
       /\ BodyValid(ProcessTx(u, Head(txs)), Tail(txs))

\* C17 (as claimed): the transactions behind the coinbase of an accepted
\* block are valid against the sequentially updated UTXO set
AcceptedBodyValid ==
    BlockAccepted =>
        BodyValid(ProcessTx(utxos, bvcall.block.transactions[1]),
                  Tail(bvcall.block.transactions))

-----------------------------------------------------------------------------
(* SpecTime: mine_block while the clock advances *)

\* one second passes
Tick ==
    /\ now < MaxClock
    /\ now' = now + 1
    /\ UNCHANGED <<ledgerVars, poolVars, guardVars, pc, cur, calls, last, lockcall,
                   admitted, selected, pb, observed, batchcall, bvcall, econ,
                   netVars>>

NextTime ==
    \/ Tick
    \/ \E m \in Miners : MineBlock(m)

SpecTime == Init /\ [][NextTime]_vars

\* C20 (as claimed): every block of the chain has a timestamp greater than
\* its predecessor's and at most MAX_TIME_DRIFT ahead of the clock
TimestampsIncrease ==
    \A b \in 2..Len(chain) :
        /\ chain[b].timestamp > chain[b - 1].timestamp
        /\ chain[b].timestamp <= now + MAX_TIME_DRIFT

-----------------------------------------------------------------------------
(* SpecEcon: XorcoinEconomics asked for the supply at a height *)

\* the heights asked
Heights == {k * HeightStep : k \in 0..MaxHeightSteps}

\* get_total_supply_at_height(h)
EconTotalSupply ==
    /\ \E h \in Heights :
         econ' = [op |-> "supply", height |-> h, supply |-> GetTotalSupplyAtHeight(h)]
    /\ UNCHANGED <<ledgerVars, poolVars, guardVars, pc, cur, calls, last, lockcall,
                   admitted, selected, now, pb, observed, batchcall, bvcall,
                   netVars>>

NextEcon == EconTotalSupply

SpecEcon == Init /\ [][NextEcon]_vars

\* C12 (as claimed): the supply emitted up to any height is at most MAX_SUPPLY
SupplyCapped == econ.op = "supply" => econ.supply <= MAX_SUPPLY

-----------------------------------------------------------------------------
(* Properties of Mempool, checked under SpecMP *)

\* the heap entries of the transactions still held, the incoming one excepted
KeptEntries ==
    {e \in Range(tx_by_fee) : InPool(transactions, e.hash) /\ e.hash # last.hash}

\* C7 (as claimed): an eviction takes the shortest prefix of the ascending
\* fee-rate order that frees the bytes needed; every evicted transaction is
\* below the incoming rate and no kept transaction is below an evicted one
EvictsLowestFirst ==
    (last.op = "add" /\ last.evicted # {}) =>
        LET needed == last.held + last.size - max_size
            freed == SumSet([e \in last.evicted |-> e.size], last.evicted)
        IN /\ \A e \in last.evicted : RateLess(e, last)
           /\ \A e \in last.evicted : \A k \in KeptEntries : ~RateLess(k, e)
           /\ freed >= needed
           /\ \A e \in last.evicted :
                 (\A f \in last.evicted : ~RateLess(e, f)) => freed - e.size < needed

\* C8 (as claimed): the transactions held never total more than max_size
PoolWithinMaxSize == HeldSize(transactions) <= max_size

\* C10 (as claimed): the selection is in descending fee-rate order, equal
\* rates in ascending txid order, and is cut at the first transaction that
\* does not fit
SelectionOrdered ==
    selected.op = "select" =>
        LET es == selected.entries
            live == SelectWalk(tx_by_fee, transactions, HeldSize(transactions) * Len(tx_by_fee))
        IN /\ \A i, j \in 1..Len(es) : i < j => ~RateLess(es[i], es[j])
           /\ \A i, j \in 1..Len(es) :
                 (i < j /\ RateEq(es[i], es[j])) => ~HashLess(es[j].hash, es[i].hash)
           /\ Len(es) <= Len(live)
           /\ \A i \in 1..Len(es) : es[i] = live[i].entry
           /\ HeldSize(selected.txs) <= selected.max_block_size
           /\ Len(es) < Len(live) =>
                 HeldSize(selected.txs) + TxSize(live[Len(es) + 1].tx)
                     > selected.max_block_size

-----------------------------------------------------------------------------
(* SpecDSP: a DoubleSpendProtector driven directly through its three     *)
(* methods, in any order and with any transaction                        *)

\* (mutant) commit_transaction when it leaves the reservation in place
CommitTransactionKeepPending(tx, spent, pending) ==
    [spent |-> spent \cup Range(tx.inputs), pending |-> pending]

\* commit_transaction(tx): pending_utxos.pop(utxo_id, None) and
\* spent_utxos.add(utxo_id) for every input
CommitTransaction(tx, spent, pending) ==
    [spent |-> spent \cup Range(tx.inputs),
     pending |-> [k \in DOMAIN pending \ Range(tx.inputs) |-> pending[k]]]

\* the transactions handed to the guard: one or more inputs among BatchIds
DSPTxs ==
    {[inputs |-> ins, outputs |-> <<[amount |-> 10, script_pubkey |-> "N"]>>,
      signature |-> 2, size |-> 1] :
        ins \in UNION {[1..n -> BatchIds] : n \in 1..MaxGuardInputs}}

\* check_and_lock_utxos(tx)
DSPCheckAndLock ==
    /\ \E tx \in DSPTxs :
         LET r == CheckAndLockUtxos(tx, spent_utxos, pending_utxos)
         IN /\ pending_utxos' = r.pending
            /\ lockcall' = [op |-> "lock", ok |-> r.ok,
                             free |-> \A id \in Range(tx.inputs) :
                                        /\ id \notin spent_utxos
                                        /\ id \notin DOMAIN pending_utxos]
    /\ UNCHANGED <<ledgerVars, poolVars, spent_utxos, pc, cur, calls, last,
                   admitted, selected, auxVars>>

\* commit_transaction(tx)
DSPCommit ==
    /\ \E tx \in DSPTxs :
         LET r == CommitTransaction(tx, spent_utxos, pending_utxos)
         IN /\ pending_utxos' = r.pending
            /\ spent_utxos' = r.spent
            /\ lockcall' = [op |-> "commit"]
    /\ UNCHANGED <<ledgerVars, poolVars, pc, cur, calls, last, admitted, selected,
                   auxVars>>

\* rollback_transaction(tx)
DSPRollback ==
    /\ \E tx \in DSPTxs :
         /\ pending_utxos' = RollbackTransaction(tx, pending_utxos)
         /\ lockcall' = [op |-> "rollback"]
    /\ UNCHANGED <<ledgerVars, poolVars, spent_utxos, pc, cur, calls, last,
                   admitted, selected, auxVars>>

NextDSP == DSPCheckAndLock \/ DSPCommit \/ DSPRollback

SpecDSP == Init /\ [][NextDSP]_vars

\* C30: no outpoint is at once reserved (in pending_utxos) and spent (in
\* spent_utxos), whatever the calls made on the guard
ReservedSpentDisjoint == DOMAIN pending_utxos \cap spent_utxos = {}

\* a commit has just run while one outpoint is spent and another reserved
ReservedAndSpent ==
    lockcall.op = "commit" /\ spent_utxos # {} /\ DOMAIN pending_utxos # {}

-----------------------------------------------------------------------------
(* SpecDiff: ConsensusRules.calculate_next_difficulty called on chains   *)
(* around the retarget length                                            *)

Max(a, b) == IF a >= b THEN a ELSE b

\* the chains handed over, as what the function reads of them: len(chain),
\* the timestamps of chain[-2016] and chain[-1], chain[-1].difficulty
DiffChains ==
    {[length |-> n, period_start_timestamp |-> 0,
      period_end_timestamp |-> k * TimeStep, difficulty |-> d] :
        n \in {DIFFICULTY_ADJUSTMENT_INTERVAL - 1, DIFFICULTY_ADJUSTMENT_INTERVAL},
        k \in 0..MaxTimeSteps, d \in 1..MaxDifficulty}

\* calculate_next_difficulty(chain); time_taken < expected_time / 2 is
\* compared over the reals, as 2 * time_taken < expected_time
CalculateNextDifficulty(c) ==
    IF c.length < DIFFICULTY_ADJUSTMENT_INTERVAL THEN c.difficulty
    ELSE LET time_taken == c.period_end_timestamp - c.period_start_timestamp
             expected_time == DIFFICULTY_ADJUSTMENT_INTERVAL * TARGET_BLOCK_TIME
         IN IF 2 * time_taken < expected_time THEN c.difficulty + 1
            ELSE IF time_taken > expected_time * 2 THEN Max(1, c.difficulty - 1)
            ELSE c.difficulty

\* calculate_next_difficulty(chain)
DiffCall ==
    /\ \E c \in DiffChains :
         diffcall' = [op |-> "difficulty", chain |-> c,
                      result |-> CalculateNextDifficulty(c)]
    /\ UNCHANGED <<ledgerVars, poolVars, guardVars, pc, cur, calls, last, lockcall,
                   admitted, selected, now, pb, observed, batchcall, bvcall, econ,
                   limVars, gbcall, p2pVars, handshake, ibd, extVars>>

NextDiff == DiffCall

SpecDiff == Init /\ [][NextDiff]_vars

\* the rule as claimed, ratio = num / den being actual_timespan over
\* expected_timespan clamped to [1/4, 4]
ClaimedDifficulty(actual, expected, d) ==
    LET num == IF 4 * actual < expected THEN 1
               ELSE IF actual > 4 * expected THEN 4 ELSE actual
        den == IF 4 * actual < expected THEN 4
               ELSE IF actual > 4 * expected THEN 1 ELSE expected
    IN IF num < den THEN d + Max(1, (2 * (den - num)) \div den)
       ELSE Max(1, d - (2 * (num - den)) \div den)

\* C29 (as claimed): at a retarget the result is d + max(1, floor((1 - ratio) * 2))
\* when ratio < 1 and max(1, d - floor((ratio - 1) * 2)) otherwise
RetargetFollowsRatio ==
    (diffcall.op = "difficulty"
     /\ diffcall.chain.length >= DIFFICULTY_ADJUSTMENT_INTERVAL)
    => diffcall.result =
         ClaimedDifficulty(diffcall.chain.period_end_timestamp
                             - diffcall.chain.period_start_timestamp,
                           DIFFICULTY_ADJUSTMENT_INTERVAL * TARGET_BLOCK_TIME,
                           diffcall.chain.difficulty)

-----------------------------------------------------------------------------
(* SpecGB: P2PNode._handle_getblocks answering the locator a node behind *)
(* it builds with _build_block_locator                                   *)

\* block.get_header_hash() of the block at a height of the best chain: the
\* blocks are told apart by it, and no block hashes to stop_hash '00' * 32
HeaderHash(height) == height + 1
ZeroHash == 0

\* blockchain.chain of a node at the given length, as header hashes
ChainOf(length) == [i \in 1..length |-> HeaderHash(i - 1)]

RECURSIVE LocatorLoop(_, _, _, _)
\* the while loop of _build_block_locator; chain[index] is 0-based
LocatorLoop(c, index, step, locator) ==
    IF index > 0
    THEN LET grown == Append(locator, c[index + 1])
         IN LocatorLoop(c, index - step,
                        IF Len(grown) > LOCATOR_DENSE THEN step * 2 ELSE step,
                        grown)
    ELSE locator

\* _build_block_locator()
BuildBlockLocator(c) == Append(LocatorLoop(c, Len(c) - 1, 1, <<>>), c[1])

RECURSIVE FindStart(_, _, _)
\* "Find common ancestor": every locator entry found in the chain sets
\* start_height, the break leaves the inner loop only
FindStart(c, locator, start_height) ==
    IF locator = <<>> THEN start_height
    ELSE LET found == {i \in 1..Len(c) : c[i] = Head(locator)}
         IN FindStart(c, Tail(locator),
                      IF found = {} THEN start_height
                      ELSE CHOOSE i \in found : \A j \in found : i <= j)

Min(a, b) == IF a <= b THEN a ELSE b

\* "Send inventory of blocks": the 0-based heights start_height .. up - 1,
\* cut after the block whose hash is stop_hash
InvItems(c, start_height, stop_hash) ==
    LET up == Min(start_height + GETBLOCKS_LIMIT, Len(c))
        stops == {i \in start_height..(up - 1) : c[i + 1] = stop_hash}
        last_i == IF stops = {} THEN up - 1
                  ELSE CHOOSE i \in stops : \A j \in stops : i <= j
    IN [k \in 1..(last_i - start_height + 1) |-> c[start_height + k]]

\* _handle_getblocks: the items of the INV sent, <<>> when none is sent
HandleGetblocks(c, locator, stop_hash) ==
    InvItems(c, FindStart(c, locator, 0), stop_hash)

\* the lengths of the chains in SpecGB: short ones, and ones past the limit
ChainLengths ==
    1..MaxChainLen \cup {GETBLOCKS_LIMIT + 1, 2 * GETBLOCKS_LIMIT + 2}

\* a node whose chain is a prefix of ours sends GETBLOCKS
GBCall ==
    /\ \E ours \in ChainLengths, theirs \in ChainLengths,
          stop_hash \in {ZeroHash, HeaderHash(1)} :
         /\ theirs <= ours
         /\ gbcall' = [op |-> "getblocks", chain |-> ours,
                       locator |-> BuildBlockLocator(ChainOf(theirs)),
                       stop_hash |-> stop_hash,
                       inv |-> HandleGetblocks(ChainOf(ours),
                                               BuildBlockLocator(ChainOf(theirs)),
                                               stop_hash)]
    /\ UNCHANGED <<ledgerVars, poolVars, guardVars, pc, cur, calls, last, lockcall,
                   admitted, selected, now, pb, observed, batchcall, bvcall, econ,
                   limVars, diffcall, p2pVars, handshake, ibd, extVars>>

NextGB == GBCall

SpecGB == Init /\ [][NextGB]_vars

\* the height of the highest block of the chain that the locator names
HighestKnown(c, locator) ==
    LET known == {i \in 1..Len(c) : c[i] \in Range(locator)}
    IN IF known = {} THEN 0 - 1
       ELSE (CHOOSE i \in known : \A j \in known : i >= j) - 1

\* C28 (as claimed): the INV lists at most 500 consecutive blocks of the
\* chain, the first one being the block right after the highest locator
\* entry that is in the chain
InvAfterHighestLocator ==
    (gbcall.op = "getblocks" /\ gbcall.stop_hash = ZeroHash) =>
        LET c == ChainOf(gbcall.chain)
            first == HighestKnown(c, gbcall.locator) + 1
            n == Min(GETBLOCKS_LIMIT, Len(c) - first)
        IN gbcall.inv = [k \in 1..n |-> c[first + k]]

-----------------------------------------------------------------------------
(* SpecRL: a RateLimiter called by the receive threads of the peers of    *)
(* the node; is_allowed takes no lock, so the threads interleave between *)
(* its statements                                                        *)

\* self.requests[client_ip] of the defaultdict(list)
RequestsOf(ip) == IF ip \in DOMAIN requests THEN requests[ip] ELSE <<>>

\* self.requests[client_ip] = value
SetRequests(ip, value) ==
    [k \in DOMAIN requests \cup {ip} |-> IF k = ip THEN value ELSE requests[k]]

\* time passes
RLTick ==
    /\ now + ClockStep <= MaxTicks * ClockStep
    /\ now' = now + ClockStep
    /\ UNCHANGED <<ledgerVars, poolVars, guardVars, pc, cur, calls, last, lockcall,
                   admitted, selected, pb, observed, batchcall, bvcall, econ,
                   netVars>>

\* is_allowed, lines 15-22: read the clock and drop the old requests
RLClean(t) ==
    /\ rl.thread[t].pc = "idle"
    /\ \A u \in 1..(t - 1) : rl.thread[u].pc # "idle"   \* threads are interchangeable
    /\ rl.calls < MaxLimiterCalls
    /\ \E client_ip \in HostIps :
         /\ requests' = SetRequests(client_ip,
                           SelectSeq(RequestsOf(client_ip),
                                     LAMBDA req_time : req_time > now - RATE_WINDOW))
         /\ rl' = [rl EXCEPT !.thread[t] = [pc |-> "check", client_ip |-> client_ip,
                                             current_time |-> now],
                             !.calls = @ + 1]
    /\ UNCHANGED <<ledgerVars, poolVars, guardVars, pc, cur, calls, last, lockcall,
                   admitted, selected, now, pb, observed, batchcall, bvcall, econ,
                   gbcall, diffcall, p2pVars, handshake, ibd, extVars>>

\* is_allowed, lines 25-26: the limit
RLCheck(t) ==
    /\ rl.thread[t].pc = "check"
    /\ IF Len(RequestsOf(rl.thread[t].client_ip)) >= max_requests
       THEN rl' = [rl EXCEPT !.thread[t] = [pc |-> "idle"],
                             !.refused = @ + 1]
       ELSE rl' = [rl EXCEPT !.thread[t].pc = "append"]
    /\ UNCHANGED <<ledgerVars, poolVars, guardVars, pc, cur, calls, last, lockcall,
                   admitted, selected, now, pb, observed, batchcall, bvcall, econ,
                   requests, gbcall, diffcall, p2pVars, handshake, ibd, extVars>>

\* is_allowed, lines 28-29: record the request and return True
RLAppend(t) ==
    /\ rl.thread[t].pc = "append"
    /\ requests' = SetRequests(rl.thread[t].client_ip,
                       Append(RequestsOf(rl.thread[t].client_ip),
                              rl.thread[t].current_time))
    /\ rl' = [rl EXCEPT !.thread[t] = [pc |-> "idle"],
                        !.allowed = Append(@, [client_ip |-> rl.thread[t].client_ip,
                                               time |-> rl.thread[t].current_time])]
    /\ UNCHANGED <<ledgerVars, poolVars, guardVars, pc, cur, calls, last, lockcall,
                   admitted, selected, now, pb, observed, batchcall, bvcall, econ,
                   gbcall, diffcall, p2pVars, handshake, ibd, extVars>>

NextRL ==
    \/ RLTick
    \/ \E t \in RecvThreads : RLClean(t)
    \/ \E t \in RecvThreads : RLCheck(t)
    \/ \E t \in RecvThreads : RLAppend(t)

SpecRL == Init /\ [][NextRL]_vars

\* the calls for an IP that returned True and were made in [from, from + 60)
AllowedInWindow(ip, from) ==
    {i \in 1..Len(rl.allowed) :
        /\ rl.allowed[i].client_ip = ip
        /\ rl.allowed[i].time >= from
        /\ rl.allowed[i].time < from + RATE_WINDOW}

\* C26 (as claimed): for every IP and every 60-second window, is_allowed
\* returns True for at most max_requests of the calls made in the window
AtMostMaxPerWindow ==
    \A ip \in HostIps : \A i \in 1..Len(rl.allowed) :
        Cardinality(AllowedInWindow(ip, rl.allowed[i].time)) <= max_requests

-----------------------------------------------------------------------------
(* P2PNode, PeerManager and Peer: network/p2p                             *)
(*                                                                       *)
(* A Peer object is a record of peer_objs; its receive thread takes the  *)
(* messages of one recv() into its buffer and hands them one by one to   *)
(* P2PNode._handle_peer_message.  The node is the three variables        *)
(* peer_objs, peers and connections_per_ip, gathered in a record so that *)
(* the handlers are functions from node to node.                         *)

NodeState == [objs |-> peer_objs, peers |-> peers, cpi |-> connections_per_ip]

\* dict.values()
Values(f) == {f[k] : k \in DOMAIN f}

\* peer_id = f"{host}:{port}"
PeerId(o) == <<o.host, o.port>>

\* Peer.is_connected
IsConnected(o) == o.state \in {"connected", "handshaking", "ready"}

\* connections_per_ip.get(peer_ip, 0)
CpiGet(cpi, peer_ip) == IF peer_ip \in DOMAIN cpi THEN cpi[peer_ip] ELSE 0

\* _handle_peer_disconnect, "Update connection tracking"
CpiRelease(cpi, host) ==
    IF host \notin DOMAIN cpi THEN cpi
    ELSE IF cpi[host] - 1 <= 0 THEN [k \in DOMAIN cpi \ {host} |-> cpi[k]]
    ELSE [cpi EXCEPT ![host] = @ - 1]

\* PeerManager.remove_peer: the entry under the peer's id, whoever holds it
RemovePeer(ps, o) == [k \in DOMAIN ps \ {PeerId(o)} |-> ps[k]]

\* Peer.disconnect(), on_disconnect being _handle_peer_disconnect
Disconnect(n, p) ==
    [objs |-> [n.objs EXCEPT ![p].running = FALSE,
                             ![p].state = "disconnected",
                             ![p].open = FALSE],
     peers |-> RemovePeer(n.peers, n.objs[p]),
     cpi |-> CpiRelease(n.cpi, n.objs[p].host)]

\* socket.sendall succeeds on a socket that is open at both ends
CanSend(o) == o.open /\ o.remote_up

\* Peer.send_message: a failed send disconnects the peer
SendMessage(n, p) == IF CanSend(n.objs[p]) THEN n ELSE Disconnect(n, p)

\* _send_version: the state is set after the send, whatever its outcome
SendVersion(n, p) ==
    LET Sent(m) == [m EXCEPT !.objs[p].state = "handshaking"]
    IN Sent(SendMessage(n, p))

\* _handle_version
HandleVersion(n, p, message) ==
    LET Replied(m) == IF m.objs[p].state = "connected" THEN SendVersion(m, p) ELSE m
    IN Replied(SendMessage([n EXCEPT !.objs[p].start_height = message.start_height], p))

\* _handle_verack
HandleVerack(n, p) == SendMessage([n EXCEPT !.objs[p].state = "ready"], p)

\* PeerManager.get_connected_peers
GetConnectedPeers(n) == {q \in Values(n.peers) : IsConnected(n.objs[q])}

\* the peers broadcast_message sends to
BroadcastTargets(n, exclude_peer) ==
    {q \in GetConnectedPeers(n) : q # exclude_peer /\ n.objs[q].state = "ready"}

RECURSIVE SendAll(_, _)
\* the sends of broadcast_message, each of which can fail
SendAll(n, targets) ==
    IF targets = {} THEN n
    ELSE LET q == CHOOSE x \in targets : TRUE
         IN SendAll(SendMessage(n, q), targets \ {q})

\* PeerManager.broadcast_message(message, exclude_peer)
BroadcastMessage(n, exclude_peer) == SendAll(n, BroadcastTargets(n, exclude_peer))

\* XorcoinSystem.add_transaction as one call: the result and what it leaves
\* in the guard and in the pool
SystemAddTransaction(tx) ==
    LET Kept(ok, pending) ==
            [ok |-> ok, pending |-> pending, heap |-> tx_by_fee,
             txs |-> transactions, csize |-> current_size]
        Pooled(lock, r) ==
            [ok |-> r.ok,
             pending |-> IF r.ok THEN lock.pending
                         ELSE RollbackTransaction(tx, lock.pending),
             heap |-> r.heap, txs |-> r.txs, csize |-> r.csize]
        Locked(lock) ==
            IF ~lock.ok THEN Kept(FALSE, pending_utxos)
            ELSE IF ~ValidateTransaction(tx, utxos, transactions)
            THEN Kept(FALSE, RollbackTransaction(tx, lock.pending))
            ELSE Pooled(lock, MempoolAdd(tx_by_fee, transactions, current_size,
                                         max_size, tx,
                                         CalculateTransactionFee(tx, utxos)))
    IN Locked(CheckAndLockUtxos(tx, spent_utxos, pending_utxos))

\* the transactions that arrive in TX messages: M pays N out of the first
\* block's coinbase, once signed properly and once not
NetTxs ==
    {[inputs |-> <<UtxoId(GetHash(FirstBlock.transactions[1]), 0)>>,
      outputs |-> <<[amount |-> 10, script_pubkey |-> "N"]>>,
      signature |-> sg, size |-> 1] : sg \in OfferedSignatures}

\* the messages a remote peer sends
NetMessages ==
    {[type |-> "version", start_height |-> h] : h \in 1..MaxRemoteHeight}
    \cup {[type |-> "verack"]}
    \cup {[type |-> "tx", tx |-> tx] : tx \in NetTxs}

\* what one recv() can bring: one message, or two
Segments == UNION {[1..k -> NetMessages] : k \in 1..MaxSegment}

\* Peer.__init__ followed by connect() or accept_connection(sock)
NewPeer(host, port, inbound) ==
    [host |-> host, port |-> port, inbound |-> inbound, state |-> "connected",
     running |-> TRUE, open |-> TRUE, remote_up |-> TRUE, thread |-> "running",
     buffer |-> <<>>, start_height |-> 0]

\* the ports a host listens on (inbound FALSE) or connects from (inbound
\* TRUE): the ones seen on the host, or the next one; a listening port is
\* never the source port of a connection
PortsFor(host, inbound, max_ports) ==
    LET base == IF inbound THEN EPHEMERAL_BASE ELSE 0
        seen == {o.port : o \in {x \in Range(peer_objs) :
                                    x.host = host /\ x.inbound = inbound}}
    IN {base + k : k \in {j \in 1..max_ports : j <= 1 + Cardinality(seen)}}

\* the remote hosts: the ones seen, or the next one
HostsNow ==
    {h \in HostIps : h = "ip1" \/ \E o \in Range(peer_objs) : o.host = "ip1"}

\* the node after a step
SetNode(n) ==
    /\ peer_objs' = n.objs
    /\ peers' = n.peers
    /\ connections_per_ip' = n.cpi

\* _accept_loop: one connection accepted; a refused one changes nothing
AcceptConnection(max_objs) ==
    /\ Len(peer_objs) < max_objs
    /\ \E host \in HostsNow : \E port \in PortsFor(host, TRUE, max_objs) :
         \* the remote end of a connection that is still open is not reused
         /\ \A q \in DOMAIN peer_objs :
               PeerId(peer_objs[q]) = <<host, port>> => ~peer_objs[q].open
         \* _enforce_connection_limits
         /\ CpiGet(connections_per_ip, host) < MAX_CONNECTIONS_PER_IP
         /\ Cardinality({q \in Values(peers) : peer_objs[q].inbound}) < MAX_INBOUND_CONNECTIONS
         \* get_peer_count() >= max_peers
         /\ Cardinality(GetConnectedPeers(NodeState)) < MAX_PEERS
         /\ peer_objs' = Append(peer_objs, NewPeer(host, port, TRUE))
         /\ peers' = [k \in DOMAIN peers \cup {<<host, port>>} |->
                        IF k = <<host, port>> THEN Len(peer_objs) + 1 ELSE peers[k]]
         /\ connections_per_ip' =
                [k \in DOMAIN connections_per_ip \cup {host} |->
                    CpiGet(connections_per_ip, k) + IF k = host THEN 1 ELSE 0]
    /\ UNCHANGED <<ledgerVars, poolVars, guardVars, pc, cur, calls, last, lockcall,
                   admitted, selected, now, pb, observed, batchcall, bvcall, econ,
                   limVars, gbcall, diffcall, netlog, handshake, ibd, extVars>>

\* connect_peer(host, port): add_peer, then _send_version; a peer that is in
\* peers already is handed back by add_peer and sent VERSION again
ConnectPeer(max_objs) ==
    /\ \E host \in HostsNow : \E port \in PortsFor(host, FALSE, max_objs) :
         IF <<host, port>> \in DOMAIN peers
         THEN SetNode(SendVersion(NodeState, peers[<<host, port>>]))
         ELSE /\ Len(peer_objs) < max_objs
              /\ Cardinality(DOMAIN peers) < MAX_PEERS
              /\ SetNode(SendVersion(
                     [objs |-> Append(peer_objs, NewPeer(host, port, FALSE)),
                      peers |-> [k \in DOMAIN peers \cup {<<host, port>>} |->
                                   IF k = <<host, port>> THEN Len(peer_objs) + 1
                                   ELSE peers[k]],
                      cpi |-> connections_per_ip],
                     Len(peer_objs) + 1))
    /\ UNCHANGED <<ledgerVars, poolVars, guardVars, pc, cur, calls, last, lockcall,
                   admitted, selected, now, pb, observed, batchcall, bvcall, econ,
                   limVars, gbcall, diffcall, netlog, handshake, ibd, extVars>>

\* the remote end closes the connection, or the link breaks
RemoteDrop(p) ==
    /\ peer_objs[p].open /\ peer_objs[p].remote_up
    /\ peer_objs' = [peer_objs EXCEPT ![p].remote_up = FALSE]
    /\ UNCHANGED <<ledgerVars, poolVars, guardVars, pc, cur, calls, last, lockcall,
                   admitted, selected, now, pb, observed, batchcall, bvcall, econ,
                   limVars, gbcall, diffcall, peers, connections_per_ip, netlog,
                   handshake, ibd, extVars>>

\* _receive_loop, lines 125-134: recv() returns the bytes of some messages
Receive(p) ==
    /\ peer_objs[p].thread = "running" /\ peer_objs[p].buffer = <<>>
    /\ peer_objs[p].running /\ CanSend(peer_objs[p])
    /\ netlog.received < MaxNetMsgs
    /\ \E segment \in Segments :
         /\ netlog.received + Len(segment) <= MaxNetMsgs
         /\ peer_objs' = [peer_objs EXCEPT ![p].buffer = segment]
         /\ netlog' = [netlog EXCEPT !.received = @ + Len(segment)]
    /\ UNCHANGED <<ledgerVars, poolVars, guardVars, pc, cur, calls, last, lockcall,
                   admitted, selected, now, pb, observed, batchcall, bvcall, econ,
                   limVars, gbcall, diffcall, peers, connections_per_ip,
                   handshake, ibd, extVars>>

\* what netlog keeps of a message handled
Handled(p, message, sent_to, was_admitted) ==
    [netlog EXCEPT !.op = message.type, !.seq = @ + 1, !.peer = p,
                   !.state_before = peer_objs[p].state,
                   !.ready_before = {q \in DOMAIN peer_objs : peer_objs[q].state = "ready"},
                   !.sent_to = sent_to, !.admitted = was_admitted]

\* _receive_loop, lines 137-166, one turn of the inner loop: the next
\* message of the buffer goes to its handler; self.running is not read there
HandleMessage(p) ==
    /\ peer_objs[p].thread = "running" /\ peer_objs[p].buffer # <<>>
    /\ LET message == Head(peer_objs[p].buffer)
           taken == [NodeState EXCEPT !.objs[p].buffer = Tail(@)]
       IN CASE message.type = "version" ->
                 /\ SetNode(HandleVersion(taken, p, message))
                 /\ netlog' = Handled(p, message, {}, FALSE)
                 /\ UNCHANGED <<poolVars, guardVars>>
            [] message.type = "verack" ->
                 /\ SetNode(HandleVerack(taken, p))
                 /\ netlog' = Handled(p, message, {}, FALSE)
                 /\ UNCHANGED <<poolVars, guardVars>>
            [] message.type = "tx" ->
                 LET Result(r) ==
                         /\ pending_utxos' = r.pending
                         /\ tx_by_fee' = r.heap
                         /\ transactions' = r.txs
                         /\ current_size' = r.csize
                         /\ SetNode(IF r.ok THEN BroadcastMessage(taken, p) ELSE taken)
                         /\ netlog' = Handled(p, message,
                                        IF r.ok THEN BroadcastTargets(taken, p) ELSE {},
                                        r.ok)
                         /\ UNCHANGED <<max_size, spent_utxos>>
                 IN Result(SystemAddTransaction(message.tx))
    /\ UNCHANGED <<ledgerVars, pc, cur, calls, last, lockcall,
                   admitted, selected, now, pb, observed, batchcall, bvcall, econ,
                   limVars, gbcall, diffcall, handshake, ibd, extVars>>

\* _receive_loop, lines 125-130 and 170-174: the loop ends, because running
\* is False or recv() failed or returned nothing, and disconnect() is called
LoopEnd(p) ==
    /\ peer_objs[p].thread = "running" /\ peer_objs[p].buffer = <<>>
    /\ ~peer_objs[p].running \/ ~CanSend(peer_objs[p])
    /\ SetNode(Disconnect([NodeState EXCEPT !.objs[p].thread = "ended"], p))
    /\ UNCHANGED <<ledgerVars, poolVars, guardVars, pc, cur, calls, last, lockcall,
                   admitted, selected, now, pb, observed, batchcall, bvcall, econ,
                   limVars, gbcall, diffcall, netlog, handshake, ibd, extVars>>

NextNet ==
    \/ AcceptConnection(MaxPeerObjs)
    \/ ConnectPeer(MaxPeerObjs)
    \/ \E p \in DOMAIN peer_objs : RemoteDrop(p)
    \/ \E p \in DOMAIN peer_objs : Receive(p)
    \/ \E p \in DOMAIN peer_objs : HandleMessage(p)
    \/ \E p \in DOMAIN peer_objs : LoopEnd(p)

\* SpecConn: the connections alone, no message being received
NextConn ==
    \/ AcceptConnection(MaxConnObjs)
    \/ ConnectPeer(MaxConnObjs)
    \/ \E p \in DOMAIN peer_objs : RemoteDrop(p)
    \/ \E p \in DOMAIN peer_objs : LoopEnd(p)

\* the node after XorcoinSystem has mined its first block and P2PNode has
\* been built on it
InitNet == InitBV

SpecNet == InitNet /\ [][NextNet]_vars

SpecConn == InitNet /\ [][NextConn]_vars

\* C21 (as claimed): a peer becomes Ready only by a VERACK handled while it
\* is in Handshaking
ReadyOnlyFromHandshaking ==
    [][\A p \in DOMAIN peer_objs :
          (peer_objs'[p].state = "ready" /\ peer_objs[p].state # "ready") =>
              /\ peer_objs[p].state = "handshaking"
              /\ netlog'.seq # netlog.seq
              /\ netlog'.op = "verack" /\ netlog'.peer = p]_vars

\* C22 (as claimed): a peer that is Disconnected stays so, and no message of
\* it is handled any more
DisconnectedIsTerminal ==
    [][\A p \in DOMAIN peer_objs :
          peer_objs[p].state = "disconnected" =>
              /\ peer_objs'[p].state = "disconnected"
              /\ netlog'.seq # netlog.seq => netlog'.peer # p]_vars

\* C24 (as claimed): the INV of a transaction admitted from a TX message goes to the
\* peers that are Ready, its sender excepted, and to no other peer
InvToReadyPeersOnly ==
    (netlog.op = "tx" /\ netlog.admitted) =>
        netlog.sent_to = netlog.ready_before \ {netlog.peer}

\* the peers of an IP that are connected
ConnectedFrom(ip) ==
    {p \in DOMAIN peer_objs : peer_objs[p].host = ip /\ IsConnected(peer_objs[p])}

\* C27 (as claimed): no IP has more than 3 peers connected at a time
AtMostThreePerIp ==
    \A ip \in HostIps : Cardinality(ConnectedFrom(ip)) <= MAX_CONNECTIONS_PER_IP

(***************************************************************************)
(* SpecHS: node A connects outbound to node B.  handshake holds the Peer   *)
(* object each node keeps for the other, the position of A's connecting    *)
(* thread and of B's accept thread, and the bytes in flight either way.    *)
(* Messages are delivered in order and the connection is never dropped.    *)
(***************************************************************************)

\* the other variables stay as they are
HSOnly ==
    UNCHANGED <<ledgerVars, poolVars, guardVars, pc, cur, calls, last, lockcall,
                admitted, selected, now, pb, observed, batchcall, bvcall, econ,
                limVars, gbcall, diffcall, p2pVars, ibd, extVars>>

\* Peer.__init__: a peer object before connect() or accept_connection()
HSNoPeer ==
    [state |-> "disconnected", thread |-> FALSE, on_message |-> FALSE,
     start_height |-> 0]

\* len(self.system.blockchain.chain) of the two nodes
HSHeights == 1..MaxHSHeight

\* connect_peer, add_peer: Peer(host, port).connect() sets CONNECTED and
\* starts the receive thread; the peer is put in peers and known_peers
HSConnect ==
    /\ handshake = NoCall
    /\ \E ha \in HSHeights, hb \in HSHeights :
         handshake' = [op |-> "connect",
                       height |-> [A |-> ha, B |-> hb],
                       main |-> [A |-> "callbacks", B |-> "accept"],
                       peer |-> [A |-> [HSNoPeer EXCEPT !.state = "connected",
                                                        !.thread = TRUE],
                                 B |-> HSNoPeer],
                       known_peers |-> [A |-> TRUE, B |-> FALSE],
                       to |-> [A |-> <<>>, B |-> <<>>]]
    /\ HSOnly

\* connect_peer, lines 535-536: the callbacks are assigned
HSCallbacksA ==
    /\ handshake # NoCall /\ handshake.main.A = "callbacks"
    /\ handshake' = [handshake EXCEPT !.main.A = "version",
                                      !.peer.A.on_message = TRUE]
    /\ HSOnly

\* _send_version, line 528: VERSION is sent
HSSendVersionA ==
    /\ handshake # NoCall /\ handshake.main.A = "version"
    /\ handshake' = [handshake EXCEPT
                        !.main.A = "state",
                        !.to.B = Append(@, [type |-> "version",
                                            start_height |-> handshake.height.A])]
    /\ HSOnly

\* _send_version, line 529: peer.state = HANDSHAKING
HSSetStateA ==
    /\ handshake # NoCall /\ handshake.main.A = "state"
    /\ handshake' = [handshake EXCEPT !.main.A = "done",
                                      !.peer.A.state = "handshaking"]
    /\ HSOnly

\* _accept_loop, lines 118-138: accept() returns, accept_connection sets
\* CONNECTED and starts the receive thread
HSAccept ==
    /\ handshake # NoCall /\ handshake.main.B = "accept"
    /\ handshake' = [handshake EXCEPT !.main.B = "callbacks",
                                      !.peer.B.state = "connected",
                                      !.peer.B.thread = TRUE]
    /\ HSOnly

\* _accept_loop, lines 139-147: the callbacks are assigned, the peer is put
\* in peers
HSCallbacksB ==
    /\ handshake # NoCall /\ handshake.main.B = "callbacks"
    /\ handshake' = [handshake EXCEPT !.main.B = "done",
                                      !.peer.B.on_message = TRUE]
    /\ HSOnly

\* the handler of a message on the peer object o of a node whose chain has
\* height blocks: the peer object after it and the messages sent by it
HSHandler(o, message, height, known) ==
    CASE message.type = "version" ->
           [peer |-> [o EXCEPT !.start_height = message.start_height,
                               !.state = IF o.state = "connected"
                                         THEN "handshaking" ELSE @],
            out |-> <<[type |-> "verack"]>>
                    \o IF o.state = "connected"
                       THEN <<[type |-> "version", start_height |-> height]>>
                       ELSE <<>>]
      [] message.type = "verack" ->
           [peer |-> [o EXCEPT !.state = "ready"],
            out |-> <<[type |-> "getaddr"]>>]
      [] message.type = "getaddr" ->
           [peer |-> o,
            out |-> IF known THEN <<[type |-> "addr"]>> ELSE <<>>]
      [] message.type = "addr" ->
           [peer |-> o, out |-> <<>>]

\* _receive_loop of the peer object of one side: the next message is parsed
\* and given to on_message, if on_message is set
HSReceive(side) ==
    /\ handshake # NoCall
    /\ handshake.peer[side].thread
    /\ handshake.to[side] # <<>>
    /\ LET message == Head(handshake.to[side])
           Deliver(r) ==
               handshake' = [handshake EXCEPT
                   !.op = message.type,
                   !.to = [s \in {"A", "B"} |->
                              IF s = side THEN Tail(handshake.to[s])
                              ELSE handshake.to[s] \o r.out],
                   !.peer[side] = r.peer,
                   !.known_peers[side] = @ \/ message.type = "addr"]
       IN IF handshake.peer[side].on_message
          THEN Deliver(HSHandler(handshake.peer[side], message,
                                 handshake.height[side],
                                 handshake.known_peers[side]))
          ELSE handshake' = [handshake EXCEPT !.op = "dropped",
                                              !.to[side] = Tail(@)]
    /\ HSOnly

NextHS ==
    \/ HSConnect
    \/ HSCallbacksA
    \/ HSSendVersionA
    \/ HSSetStateA
    \/ HSAccept
    \/ HSCallbacksB
    \/ HSReceive("A")
    \/ HSReceive("B")

\* every thread that can run does run: A's connecting thread, B's accept
\* thread and the two receive threads
HSFairness ==
    /\ WF_vars(HSCallbacksA \/ HSSendVersionA \/ HSSetStateA)
    /\ WF_vars(HSAccept \/ HSCallbacksB)
    /\ WF_vars(HSReceive("A"))
    /\ WF_vars(HSReceive("B"))

SpecHS == Init /\ [][NextHS]_vars /\ HSFairness

\* both peer objects are Ready and hold the other node's height
HSBothReady ==
    /\ handshake # NoCall
    /\ handshake.peer.A.state = "ready"
    /\ handshake.peer.B.state = "ready"
    /\ handshake.peer.A.start_height = handshake.height.B
    /\ handshake.peer.B.start_height = handshake.height.A

\* C23 (as claimed): once A has connected to B the handshake completes: both
\* peer objects become Ready, each with the other's start_height
HandshakeCompletes ==
    (handshake # NoCall) ~> HSBothReady

(***************************************************************************)
(* SpecIBD: node N1 with a chain shorter than the one of its Ready peer    *)
(* N2.  Both chains are given by their lengths (N1's is a prefix of N2's); *)
(* ibd holds N1's chain length and sync fields, the start_height N2        *)
(* announced, and the messages in flight either way.                       *)
(***************************************************************************)

\* the other variables stay as they are
IBDOnly ==
    UNCHANGED <<ledgerVars, poolVars, guardVars, pc, cur, calls, last, lockcall,
                admitted, selected, now, pb, observed, batchcall, bvcall, econ,
                limVars, gbcall, diffcall, p2pVars, handshake, extVars>>

\* the handshake with N2 is over: N2's peer object is Ready and holds the
\* start_height of N2's VERSION
IBDReady ==
    /\ ibd = NoCall
    /\ \E ours \in 1..MaxIBDLen, theirs \in 1..MaxIBDLen :
         /\ ours < theirs
         /\ ibd' = [op |-> "ready", local |-> ours, remote |-> theirs,
                    start_height |-> theirs, syncing |-> FALSE,
                    requested_blocks |-> {}, received |-> {},
                    to_remote |-> <<>>, to_local |-> <<>>]
    /\ IBDOnly

\* _check_sync_needed, then _start_sync: GETBLOCKS with the block locator
IBDCheckSyncNeeded ==
    /\ ibd # NoCall
    /\ ~ibd.syncing
    /\ ibd.start_height > ibd.local + 1
    /\ ibd' = [ibd EXCEPT
                  !.op = "sync",
                  !.syncing = TRUE,
                  !.to_remote = Append(@,
                      [type |-> "getblocks",
                       locator |-> BuildBlockLocator(ChainOf(ibd.local)),
                       stop_hash |-> ZeroHash])]
    /\ IBDOnly

\* the BLOCK messages of _handle_getdata, one for every item in the chain
RECURSIVE BlocksFor(_, _)
BlocksFor(c, items) ==
    IF items = <<>> THEN <<>>
    ELSE (IF Head(items) \in Range(c)
          THEN <<[type |-> "block", hash |-> Head(items)]>> ELSE <<>>)
         \o BlocksFor(c, Tail(items))

\* N2's receive thread: _handle_getblocks or _handle_getdata
IBDRemoteHandle ==
    /\ ibd # NoCall
    /\ ibd.to_remote # <<>>
    /\ LET message == Head(ibd.to_remote)
           Reply(out) ==
               ibd' = [ibd EXCEPT !.op = message.type,
                                  !.to_remote = Tail(@),
                                  !.to_local = @ \o out]
       IN CASE message.type = "getblocks" ->
                 LET Inv(items) ==
                         Reply(IF items = <<>> THEN <<>>
                               ELSE <<[type |-> "inv", items |-> items]>>)
                 IN Inv(HandleGetblocks(ChainOf(ibd.remote), message.locator,
                                        message.stop_hash))
            [] message.type = "getdata" ->
                 Reply(BlocksFor(ChainOf(ibd.remote), message.items))
    /\ IBDOnly

\* _handle_inv: the items that _have_block does not find, in order
RECURSIVE ToRequest(_, _)
ToRequest(c, items) ==
    IF items = <<>> THEN <<>>
    ELSE (IF Head(items) \in Range(c) THEN <<>> ELSE <<Head(items)>>)
         \o ToRequest(c, Tail(items))

\* N1's receive thread: _handle_inv or _handle_block; _handle_block takes
\* the hash out of requested_blocks and leaves the chain as it is
IBDLocalHandle ==
    /\ ibd # NoCall
    /\ ibd.to_local # <<>>
    /\ LET message == Head(ibd.to_local)
       IN CASE message.type = "inv" ->
                 LET Request(items) ==
                         ibd' = [ibd EXCEPT
                             !.op = "inv",
                             !.to_local = Tail(@),
                             !.requested_blocks = @ \cup Range(items),
                             !.to_remote = IF items = <<>> THEN @
                                 ELSE Append(@, [type |-> "getdata",
                                                 items |-> items])]
                 IN Request(ToRequest(ChainOf(ibd.local), message.items))
            [] message.type = "block" ->
                 ibd' = [ibd EXCEPT !.op = "block",
                                    !.to_local = Tail(@),
                                    !.requested_blocks = @ \ {message.hash},
                                    !.received = @ \cup {message.hash}]
    /\ IBDOnly

NextIBD ==
    \/ IBDReady
    \/ IBDCheckSyncNeeded
    \/ IBDRemoteHandle
    \/ IBDLocalHandle

\* the peer is responsive, N1's receive thread runs, and the sync check is
\* made whenever it is due
IBDFairness ==
    /\ WF_vars(IBDCheckSyncNeeded)
    /\ WF_vars(IBDRemoteHandle)
    /\ WF_vars(IBDLocalHandle)

SpecIBD == Init /\ [][NextIBD]_vars /\ IBDFairness

\* N1 has reached N2's height with the same header hashes
IBDConverged ==
    /\ ibd # NoCall
    /\ ChainOf(ibd.local) = ChainOf(ibd.remote)

\* C25 (as claimed): a node behind its Ready peer eventually reaches the
\* peer's height with identical header hashes
SyncConverges ==
    (ibd # NoCall) ~> IBDConverged

\* C31 (as claimed): while no add_transaction call is under way, every
\* outpoint reserved by the guard is an input of a transaction held in the
\* mempool
ReservedHeldByPool ==
    (\A t \in Threads : pc[t] = "idle") =>
        \A id \in DOMAIN pending_utxos :
            \E i \in 1..Len(transactions) : id \in Range(transactions[i].inputs)

\* C39 (as claimed): get_transactions_for_block, given room for the whole
\* pool, returns every transaction the pool holds
AllHeldSelectable ==
    Range(GetTransactionsForBlock(tx_by_fee, transactions, HeldSize(transactions)))
        = Range(transactions)

(***************************************************************************)
(* SpecRW: the RWLock of ThreadSafeUTXOSet used by reader and writer       *)
(* threads.  rw.owner is the thread holding the RLock of the condition     *)
(* (0: nobody); a thread inside wait() has released it and is either       *)
(* waiting for notifyAll or, notified, waiting to take the lock back.      *)
(***************************************************************************)

\* the other variables stay as they are
RWOnly == UNCHANGED <<coreVars, bc, reorg, pm, ban, relay>>

\* _ReadLock.__enter__, first line: _read_ready.acquire()
RWReadAcquire(t) ==
    /\ rw.pc[t] = "idle" /\ rw.owner = 0
    /\ rw' = [rw EXCEPT !.owner = t, !.pc[t] = "r_enter"]
    /\ RWOnly

\* (mutant) _ReadLock.__enter__ when it counts no reader
RWReadEnterUncounted(t) ==
    /\ rw.pc[t] = "r_enter"
    /\ rw' = [rw EXCEPT !.owner = 0, !.pc[t] = "reading"]
    /\ RWOnly

\* _ReadLock.__enter__: _readers += 1, release(); the read section begins
RWReadEnter(t) ==
    /\ rw.pc[t] = "r_enter"
    /\ rw' = [rw EXCEPT !.readers = @ + 1, !.owner = 0, !.pc[t] = "reading"]
    /\ RWOnly

\* _ReadLock.__exit__, first line: _read_ready.acquire()
RWReadLeave(t) ==
    /\ rw.pc[t] = "reading" /\ rw.owner = 0
    /\ rw' = [rw EXCEPT !.owner = t, !.pc[t] = "r_exit"]
    /\ RWOnly

\* _ReadLock.__exit__: _readers -= 1, notifyAll() when it is 0, release()
RWReadExit(t) ==
    /\ rw.pc[t] = "r_exit"
    /\ rw' = [rw EXCEPT
                 !.readers = @ - 1,
                 !.owner = 0,
                 !.pc = [u \in RWThreads |->
                            IF u = t THEN "idle"
                            ELSE IF rw.pc[u] = "w_wait" /\ rw.readers = 1
                                 THEN "w_notified" ELSE rw.pc[u]]]
    /\ RWOnly

\* _WriteLock.__enter__, first line: _read_ready.acquire()
RWWriteAcquire(t) ==
    /\ rw.pc[t] = "idle" /\ rw.owner = 0
    /\ rw' = [rw EXCEPT !.owner = t, !.pc[t] = "w_check"]
    /\ RWOnly

\* _WriteLock.__enter__, the while loop: wait() releases the lock, or the
\* write section begins with the lock held
RWWriteCheck(t) ==
    /\ rw.pc[t] = "w_check"
    /\ rw' = IF rw.readers > 0
             THEN [rw EXCEPT !.owner = 0, !.pc[t] = "w_wait"]
             ELSE [rw EXCEPT !.pc[t] = "writing"]
    /\ RWOnly

\* wait() returns: the notified thread takes the lock back
RWWriteWake(t) ==
    /\ rw.pc[t] = "w_notified" /\ rw.owner = 0
    /\ rw' = [rw EXCEPT !.owner = t, !.pc[t] = "w_check"]
    /\ RWOnly

\* _WriteLock.__exit__: release()
RWWriteExit(t) ==
    /\ rw.pc[t] = "writing"
    /\ rw' = [rw EXCEPT !.owner = 0, !.pc[t] = "idle"]
    /\ RWOnly

NextRW ==
    \E t \in RWThreads :
        \/ RWReadAcquire(t)
        \/ RWReadEnter(t)
        \/ RWReadLeave(t)
        \/ RWReadExit(t)
        \/ RWWriteAcquire(t)
        \/ RWWriteCheck(t)
        \/ RWWriteWake(t)
        \/ RWWriteExit(t)

SpecRW == Init /\ [][NextRW]_vars

RWReaders == {t \in RWThreads : rw.pc[t] = "reading"}
RWWriters == {t \in RWThreads : rw.pc[t] = "writing"}

\* C32: no writer is in its write section while a reader is in a read
\* section, and no two writers are in write sections together
WritersExclusive ==
    /\ RWWriters # {} => RWReaders = {}
    /\ Cardinality(RWWriters) <= 1

\* a writer is in its write section while another writer, woken up after
\* the last reader left, waits to take the lock back
WriterWhileWriterWaits ==
    /\ RWWriters # {}
    /\ \E t \in RWThreads : rw.pc[t] = "w_notified"

(***************************************************************************)
(* SpecBC: a Blockchain object and the Block objects handed to add_block.  *)
(* bc.objs are the Block objects in the order of their creation, bc.chain  *)
(* lists the objects of Blockchain.chain by their position in bc.objs: a   *)
(* Block is mutable and add_block works on the object it is given.         *)
(***************************************************************************)

\* the other variables stay as they are
BCOnly == UNCHANGED <<coreVars, rw, reorg, pm, ban, relay>>

\* Block.get_header_hash: a digest of height, prev_block_hash, merkle_root,
\* difficulty and nonce, modelled by the tuple of them
BCHeaderHash(b) ==
    <<b.height, b.prev_block_hash, b.merkle_root, b.difficulty, b.nonce>>

\* the nonce, out of 1..3, with which the header of b hashes below its target
BCGoodNonce(b) == 1 + ((b.height + Len(b.merkle_root) + Len(b.prev_block_hash)) % 3)

\* hash_result.startswith("0" * difficulty)
BCMeetsTarget(b) == b.difficulty = 0 \/ b.nonce = BCGoodNonce(b)

\* BlockMiner.mine_block: merkle_root is computed, then nonces are drawn
\* until the header hash meets the target
BCMineBlock(b) ==
    LET Rooted(r) == [r EXCEPT !.nonce = BCGoodNonce(r)]
    IN Rooted([b EXCEPT !.merkle_root = b.transactions])

\* Block(transactions=...) as a caller builds it
BCNewBlock(txs) ==
    [height |-> 0, prev_block_hash |-> <<>>, merkle_root |-> <<>>,
     difficulty |-> BC_DIFFICULTY, nonce |-> 0, transactions |-> txs]

\* the transaction lists of the blocks built, as txids
BCBodies == {<<>>, <<1>>, <<1, 2>>}

\* Blockchain.add_block(block) on the Block object o: the objects after it
BCAddBlock(objs, ch, o) ==
    [objs EXCEPT ![o] = BCMineBlock(
        [@ EXCEPT !.height = Len(ch),
                  !.prev_block_hash = BCHeaderHash(objs[ch[Len(ch)]]),
                  !.difficulty = BC_DIFFICULTY])]

\* add_block called with a Block built for the call
BCAddFresh ==
    /\ Len(bc.chain) < MaxBCBlocks
    /\ \E txs \in BCBodies :
         LET Added(objs) ==
                 bc' = [objs |-> BCAddBlock(objs, bc.chain, Len(objs)),
                        chain |-> Append(bc.chain, Len(objs)),
                        last |-> Len(objs)]
         IN Added(Append(bc.objs, BCNewBlock(txs)))
    /\ BCOnly

\* add_block called with a Block object that was handed to it before
BCAddAgain ==
    /\ Len(bc.chain) < MaxBCBlocks
    /\ \E o \in 2..Len(bc.objs) :
         bc' = [objs |-> BCAddBlock(bc.objs, bc.chain, o),
                chain |-> Append(bc.chain, o),
                last |-> o]
    /\ BCOnly

NextBC == BCAddFresh \/ BCAddAgain

SpecBC == Init /\ [][NextBC]_vars

\* Blockchain.validate_chain()
BCValidateChain ==
    \A i \in 2..Len(bc.chain) :
        LET current == bc.objs[bc.chain[i]]
            previous == bc.objs[bc.chain[i - 1]]
        IN /\ BCMeetsTarget(current)
           /\ current.prev_block_hash = BCHeaderHash(previous)
           /\ current.height = i - 1

\* C33 (as claimed): every block above genesis has its index as height, the
\* header hash of its predecessor as prev_block_hash, the merkle root of its
\* transactions and a header hash meeting its target; validate_chain() holds
ChainWellFormed ==
    /\ BCValidateChain
    /\ \A i \in 2..Len(bc.chain) :
          bc.objs[bc.chain[i]].merkle_root = bc.objs[bc.chain[i]].transactions

(***************************************************************************)
(* SpecReorg: ForkChoice.handle_reorg on two chains that share their       *)
(* first blocks.                                                           *)
(***************************************************************************)

\* a block of one branch at one height: its header hash, its coinbase and
\* body non-coinbase transactions
ReorgBlock(branch, height, body) ==
    [hash |-> <<branch, height>>,
     transactions |-> [j \in 1..(body + 1) |-> <<branch, height, j - 1>>]]

\* a chain: common blocks of the shared branch, then own blocks of its own
ReorgChain(branch, common, own, body) ==
    [i \in 1..(common + own) |->
        ReorgBlock(IF i <= common THEN "shared" ELSE branch, i - 1, body)]

RECURSIVE FirstDifference(_, _, _, _)
\* "Find common ancestor": the first index, 0-based, at which the header
\* hashes differ; 0 when the loop ends without a difference
FirstDifference(old_chain, new_chain, i, upto) ==
    IF i >= upto THEN 0
    ELSE IF old_chain[i + 1].hash # new_chain[i + 1].hash THEN i
    ELSE FirstDifference(old_chain, new_chain, i + 1, upto)

RECURSIVE RemovedTxs(_, _)
\* "Get transactions from removed blocks": block.transactions[1:] of every
\* block of old_chain[common_height:]
RemovedTxs(old_chain, common_height) ==
    IF common_height >= Len(old_chain) THEN <<>>
    ELSE Tail(old_chain[common_height + 1].transactions)
         \o RemovedTxs(old_chain, common_height + 1)

\* ForkChoice.handle_reorg(old_chain, new_chain)
HandleReorg(old_chain, new_chain) ==
    RemovedTxs(old_chain,
               FirstDifference(old_chain, new_chain, 0,
                               Min(Len(old_chain), Len(new_chain))))

\* handle_reorg is called on two chains with the same first blocks
ReorgCall ==
    /\ \E common \in 1..MaxReorgLen, old_own \in 0..MaxReorgLen,
          new_own \in 0..MaxReorgLen, body \in 0..MaxReorgBody :
         LET Called(old_chain, new_chain) ==
                 reorg' = [op |-> "handle_reorg", common |-> common,
                           old_chain |-> old_chain, new_chain |-> new_chain,
                           removed_txs |-> HandleReorg(old_chain, new_chain)]
         IN Called(ReorgChain("old", common, old_own, body),
                   ReorgChain("new", common, new_own, body))
    /\ UNCHANGED <<coreVars, rw, bc, pm, ban, relay>>

NextReorg == ReorgCall

SpecReorg == Init /\ [][NextReorg]_vars

\* C37 (as claimed): handle_reorg returns the non-coinbase transactions of
\* the old-chain blocks above the lowest common ancestor, and none when the
\* old chain is a prefix of the new one
ReorgReturnsUnwound ==
    reorg.op = "handle_reorg" =>
        reorg.removed_txs = RemovedTxs(reorg.old_chain, reorg.common)

(***************************************************************************)
(* SpecBan: PeerManager.ban_peer called by one thread (1) while the        *)
(* receive thread (2) of a peer may end and disconnect it.  Every peer has *)
(* on_disconnect = P2PNode._handle_peer_disconnect, which calls            *)
(* remove_peer.  ban.lock is the thread holding peer_lock, a               *)
(* threading.Lock, or 0.                                                   *)
(***************************************************************************)

BanOnly == UNCHANGED <<coreVars, rw, bc, reorg, pm, relay>>

\* the peers that can be in the peer table
BanPeers == HostIps \X (1..MaxBanPorts)

\* a PeerManager with some peers in its table
BanSetup ==
    /\ ban = NoCall
    /\ \E table \in SUBSET BanPeers :
         ban' = [op |-> "setup", peers |-> table, lock |-> 0, banned |-> {},
                 pc |-> <<"idle", "idle">>, peer |-> <<0, 0>>, items |-> {}]
    /\ BanOnly

\* ban_peer(host), lines 95-98: the ban is recorded, peer_lock is taken and
\* list(self.peers.items()) is made
BanPeer ==
    /\ ban # NoCall /\ ban.pc[1] = "idle" /\ ban.lock = 0
    /\ \E host \in HostIps :
         ban' = [ban EXCEPT !.op = "ban_peer", !.banned = @ \cup {host},
                            !.lock = 1, !.pc[1] = "loop",
                            !.items = {p \in ban.peers : p[1] = host}]
    /\ BanOnly

\* ban_peer, lines 98-102: the loop ends and peer_lock is released, or
\* peer.disconnect() is called on the next peer of the host; disconnect()
\* calls on_disconnect, which calls remove_peer
BanLoop ==
    /\ ban # NoCall /\ ban.pc[1] = "loop"
    /\ IF ban.items = {}
       THEN ban' = [ban EXCEPT !.op = "returned", !.lock = 0, !.pc[1] = "returned"]
       ELSE \E p \in ban.items :
              ban' = [ban EXCEPT !.op = "disconnect", !.pc[1] = "remove_peer",
                                 !.peer[1] = p, !.items = @ \ {p}]
    /\ BanOnly

\* _receive_loop of a peer ends: disconnect(), on_disconnect, remove_peer
BanLoopEnd ==
    /\ ban # NoCall /\ ban.pc[2] = "idle"
    /\ \E p \in ban.peers :
         ban' = [ban EXCEPT !.op = "loop_end", !.pc[2] = "remove_peer",
                            !.peer[2] = p]
    /\ BanOnly

\* remove_peer, line 68: "with self.peer_lock" is entered once the lock is
\* free, whoever holds it
BanRemoveAcquire(t) ==
    /\ ban # NoCall /\ ban.pc[t] = "remove_peer" /\ ban.lock = 0
    /\ ban' = [ban EXCEPT !.op = "acquired", !.lock = t, !.pc[t] = "locked"]
    /\ BanOnly

\* remove_peer, lines 69-70: the entry is deleted and the lock released; the
\* receive thread is done, ban_peer goes on with "del self.peers[peer_id]"
BanRemove(t) ==
    /\ ban # NoCall /\ ban.pc[t] = "locked"
    /\ ban' = [ban EXCEPT !.op = "removed", !.lock = 0,
                          !.peers = @ \ {ban.peer[t]},
                          !.pc[t] = IF t = 1 THEN "loop" ELSE "ended"]
    /\ BanOnly

NextBan ==
    \/ BanSetup
    \/ BanPeer
    \/ BanLoop
    \/ BanLoopEnd
    \/ \E t \in {1, 2} : BanRemoveAcquire(t)
    \/ \E t \in {1, 2} : BanRemove(t)

\* both threads run whenever they can
BanFairness ==
    /\ WF_vars(BanLoop \/ BanRemoveAcquire(1) \/ BanRemove(1))
    /\ WF_vars(BanRemoveAcquire(2) \/ BanRemove(2))

SpecBan == Init /\ [][NextBan]_vars /\ BanFairness

BanCalled == ban # NoCall /\ ban.pc[1] \notin {"idle", "returned"}
BanReturned == ban # NoCall /\ ban.pc[1] = "returned"

\* C40 (as claimed): every ban_peer call returns
BanPeerReturns == BanCalled ~> BanReturned

(***************************************************************************)
(* SpecPM: PeerManager.add_peer called by several threads.  Each "with     *)
(* self.peer_lock" block is one step; Peer.connect() runs between the two  *)
(* blocks, outside the lock.                                               *)
(***************************************************************************)

PMOnly == UNCHANGED <<coreVars, rw, bc, reorg, ban, relay>>

PMThreads == 1..NumPMThreads

\* the peers the threads connect to: none of them is in the table
PMTargets == (MAX_PEERS + 1)..(MAX_PEERS + NumPMThreads)

\* a PeerManager whose table holds some connected peers already
PMSetup ==
    /\ pm = NoCall
    /\ \E n \in (MAX_PEERS - MaxPMFree)..MAX_PEERS :
         pm' = [op |-> "setup", peers |-> 1..n,
                pc |-> [t \in PMThreads |-> "idle"],
                target |-> [t \in PMThreads |-> 0]]
    /\ PMOnly

\* add_peer, lines 39-53: under peer_lock, a peer in the table is handed
\* back and a full table refuses
PMCheck(t) ==
    /\ pm # NoCall /\ pm.pc[t] = "idle"
    /\ \E peer_id \in PMTargets :
         pm' = [pm EXCEPT
                   !.op = "check",
                   !.target[t] = peer_id,
                   !.pc[t] = IF peer_id \in pm.peers
                                \/ Cardinality(pm.peers) >= MAX_PEERS
                             THEN "returned" ELSE "connect"]
    /\ PMOnly

\* add_peer, lines 56-57: Peer(host, port).connect() succeeds or fails
PMConnect(t) ==
    /\ pm # NoCall /\ pm.pc[t] = "connect"
    /\ \E connected \in BOOLEAN :
         pm' = [pm EXCEPT !.op = "connect",
                          !.pc[t] = IF connected THEN "insert" ELSE "returned"]
    /\ PMOnly

\* add_peer, lines 58-61: under peer_lock, self.peers[peer_id] = peer
PMInsert(t) ==
    /\ pm # NoCall /\ pm.pc[t] = "insert"
    /\ pm' = [pm EXCEPT !.op = "insert", !.peers = @ \cup {pm.target[t]},
                        !.pc[t] = "returned"]
    /\ PMOnly

NextPM ==
    \/ PMSetup
    \/ \E t \in PMThreads : PMCheck(t)
    \/ \E t \in PMThreads : PMConnect(t)
    \/ \E t \in PMThreads : PMInsert(t)

SpecPM == Init /\ [][NextPM]_vars

\* C38 (as claimed): the peer table never holds more than max_peers peers
AtMostMaxPeers ==
    pm # NoCall => Cardinality(pm.peers) <= MAX_PEERS

(***************************************************************************)
(* SpecRelay: a P2PNode and two inbound peers, from the moment             *)
(* _accept_loop has accepted them (state Connected).  Each message a peer  *)
(* sends goes through _handle_peer_message to its handler; relay holds the *)
(* peers' states and scores, the requested sets and known_peers, and what  *)
(* the handler of the most recent message did.                             *)
(***************************************************************************)

\* a block built on the tip whose header hash starts with z zeros
RelayBlock(z) ==
    [height |-> Len(chain), timestamp |-> chain[Len(chain)].timestamp + 1,
     difficulty |-> CHAIN_DIFFICULTY, hash_zeros |-> z,
     merkle_root |-> <<GetHash(Coinbase(GetBlockReward(Len(chain)), "M"))>>,
     transactions |-> <<Coinbase(GetBlockReward(Len(chain)), "M")>>]

\* Block.get_header_hash of such a block; no block of the chain has it
RelayBlockHash(block) ==
    [height |-> block.height, merkle_root |-> block.merkle_root,
     hash_zeros |-> block.hash_zeros]

\* the messages the peers send; a payload that does not deserialize is
\* "garbled"
RelayMessages ==
    {[type |-> "version"], [type |-> "verack"], [type |-> "addr", addr |-> "a1"]}
    \cup {[type |-> "inv", item |-> "block", hash |-> RelayBlockHash(RelayBlock(z))] :
             z \in {0, CHAIN_DIFFICULTY}}
    \cup {[type |-> "inv", item |-> "tx", hash |-> GetHash(tx)] : tx \in NetTxs}
    \cup {[type |-> "tx", garbled |-> FALSE, tx |-> tx] : tx \in NetTxs}
    \cup {[type |-> "tx", garbled |-> TRUE]}
    \cup {[type |-> "block", garbled |-> FALSE, block |-> RelayBlock(z)] :
             z \in {0, CHAIN_DIFFICULTY}}
    \cup {[type |-> "block", garbled |-> TRUE]}

\* PeerScore.update(action) for the peer p, then _ban_peer when it says so:
\* the peer is disconnected
RelayScore(r, p, value) ==
    [r EXCEPT !.score[p] = @ + value,
              !.state[p] = IF r.score[p] + value <= 0 THEN "disconnected" ELSE @]

\* what relay keeps of the message handled: the peer, its state before, the
\* items asked for by GETDATA, the peers sent an INV, whether the item
\* delivered passes validation
RelayLog(r, p, message, getdata, inv_to, item_valid) ==
    [r EXCEPT !.seq = @ + 1, !.op = message.type, !.peer = p,
              !.state_before = relay.state[p], !.getdata = getdata,
              !.inv_to = inv_to, !.item_valid = item_valid]

\* _handle_peer_message for one message of the peer p
RelayHandle(p) ==
    /\ relay.seq < MaxRelayMsgs
    /\ relay.state[p] # "disconnected"
    /\ \E message \in RelayMessages :
         CASE message.type = "version" ->
                \* _handle_version: VERACK, and VERSION if not sent yet
                /\ relay' = RelayLog([relay EXCEPT !.state[p] =
                                         IF @ = "connected" THEN "handshaking" ELSE @],
                                     p, message, {}, {}, TRUE)
                /\ UNCHANGED <<poolVars, guardVars>>
           [] message.type = "verack" ->
                \* _handle_verack
                /\ relay' = RelayLog([relay EXCEPT !.state[p] = "ready"],
                                     p, message, {}, {}, TRUE)
                /\ UNCHANGED <<poolVars, guardVars>>
           [] message.type = "addr" ->
                \* _handle_addr
                /\ relay' = RelayLog([relay EXCEPT !.known_peers = @ \cup {message.addr}],
                                     p, message, {}, {}, TRUE)
                /\ UNCHANGED <<poolVars, guardVars>>
           [] message.type = "inv" ->
                \* _handle_inv: an item the node does not hold is put in the
                \* requested set and asked for
                LET wanted == IF message.item = "block" THEN TRUE
                              ELSE ~InPool(transactions, message.hash)
                IN /\ relay' = RelayLog(
                          [relay EXCEPT
                              !.requested_blocks =
                                  IF wanted /\ message.item = "block"
                                  THEN @ \cup {message.hash} ELSE @,
                              !.requested_txs =
                                  IF wanted /\ message.item = "tx"
                                  THEN @ \cup {message.hash} ELSE @],
                          p, message, IF wanted THEN {message.hash} ELSE {}, {}, TRUE)
                   /\ UNCHANGED <<poolVars, guardVars>>
           [] message.type = "block" ->
                \* _handle_block: INVALID_BLOCK when the payload does not
                \* deserialize; else the hash leaves requested_blocks and
                \* the peer is rewarded
                /\ relay' =
                     IF message.garbled
                     THEN RelayLog(RelayScore(relay, p, INVALID_BLOCK), p, message,
                                   {}, {}, FALSE)
                     ELSE RelayLog(
                              RelayScore([relay EXCEPT !.requested_blocks =
                                             @ \ {RelayBlockHash(message.block)}],
                                         p, VALID_BLOCK),
                              p, message, {}, {},
                              ValidateBlock(message.block, chain[Len(chain)], now))
                /\ UNCHANGED <<poolVars, guardVars>>
           [] message.type = "tx" ->
                \* _handle_tx: INVALID_TX when the payload does not
                \* deserialize; else the hash leaves requested_txs and, if
                \* add_transaction admits it, it is relayed and rewarded
                IF message.garbled
                THEN /\ relay' = RelayLog(RelayScore(relay, p, INVALID_TX), p,
                                          message, {}, {}, FALSE)
                     /\ UNCHANGED <<poolVars, guardVars>>
                ELSE LET Result(r) ==
                             /\ pending_utxos' = r.pending
                             /\ tx_by_fee' = r.heap
                             /\ transactions' = r.txs
                             /\ current_size' = r.csize
                             /\ relay' = RelayLog(
                                    IF r.ok
                                    THEN RelayScore(
                                             [relay EXCEPT !.requested_txs =
                                                 @ \ {GetHash(message.tx)}],
                                             p, VALID_TX)
                                    ELSE [relay EXCEPT !.requested_txs =
                                             @ \ {GetHash(message.tx)}],
                                    p, message, {},
                                    IF r.ok
                                    THEN {q \in RelayPeers \ {p} : relay.state[q] = "ready"}
                                    ELSE {},
                                    r.ok)
                             /\ UNCHANGED <<max_size, spent_utxos>>
                     IN Result(SystemAddTransaction(message.tx))
    /\ UNCHANGED <<ledgerVars, pc, cur, calls, last, lockcall,
                   admitted, selected, now, pb, observed, batchcall, bvcall, econ,
                   limVars, gbcall, diffcall, p2pVars, handshake, ibd,
                   rw, bc, reorg, pm, ban>>

NextRelay == \E p \in RelayPeers : RelayHandle(p)

SpecRelay == InitNet /\ [][NextRelay]_vars

\* the message types of ordinary traffic that the model sends
RelayOrdinary == {"inv", "tx", "block", "addr"}

\* C34 (as claimed): a message of ordinary traffic from a peer that is not
\* Ready changes neither the mempool nor the requested sets nor
\* known_peers, and nothing is sent to other peers or asked of the sender
ReadyBeforeTraffic ==
    [][(/\ relay'.seq # relay.seq
        /\ relay'.op \in RelayOrdinary
        /\ relay'.state_before # "ready")
       => /\ transactions' = transactions
          /\ relay'.requested_blocks = relay.requested_blocks
          /\ relay'.requested_txs = relay.requested_txs
          /\ relay'.known_peers = relay.known_peers
          /\ relay'.getdata = {} /\ relay'.inv_to = {}]_vars

\* C35 (as claimed): an INV naming an item that is in requested_blocks or
\* requested_txs causes no GETDATA for that item
NoSecondGetdata ==
    [][(relay'.seq # relay.seq /\ relay'.op = "inv")
       => relay'.getdata \cap (relay.requested_blocks \cup relay.requested_txs) = {}]_vars

\* C36 (as claimed): a TX or BLOCK that fails validation costs its sender
\* the penalty, and a score only rises for an item that passed validation
ScoreFollowsValidation ==
    [][(relay'.seq # relay.seq /\ relay'.op \in {"tx", "block"})
       => /\ ~relay'.item_valid =>
                relay'.score[relay'.peer] = relay.score[relay'.peer]
                    + (IF relay'.op = "tx" THEN INVALID_TX ELSE INVALID_BLOCK)
          /\ relay'.score[relay'.peer] > relay.score[relay'.peer] =>
                relay'.item_valid]_vars

====
